---- MODULE Spec2Model ----
(***************************************************************************)
(* The hierarchy of processors of mindmeld/components/nlp.py: the root     *)
(* NaturalLanguageProcessor, its DomainProcessors, their IntentProcessors  *)
(* and the EntityProcessors the intents create, with the lifecycle         *)
(* operations build / dump / load and the label selection of process.      *)
(*                                                                         *)
(* A processor is named by its path from the root: <<>> is the root,       *)
(* <<d>> a domain, <<d, i>> an intent, <<d, i, e>> an entity type.         *)
(***************************************************************************)
EXTENDS Integers, Sequences, FiniteSets, TLC

VARIABLES
    children,               \* Processor._children: path -> sequence of keys, in insertion order
    ready,                  \* Processor.ready
    dirty,                  \* Processor.dirty
    incremental_timestamp,  \* Processor._incremental_timestamp (NoTs is None)
    entity_types,           \* IntentProcessor.entity_recognizer.entity_types
    clock,                  \* the wall clock read by time.time(), in seconds
    last,                   \* the last call made on the hierarchy and how it ended
    calls,                  \* the calls that call made on the classifiers, in order
    req,                    \* the arguments of the last process call
    res,                    \* what the last process call returned
    num_workers,            \* the module global num_workers
    executor,               \* the module global executor: a pool of pools, or NoExecutor
    pools,                  \* every ProcessPoolExecutor created so far, in creation order
    batch,                  \* for each calling thread, its call of Processor._process_list
    alignment               \* the last call of IntentProcessor._align_entities

vars == <<children, ready, dirty, incremental_timestamp, entity_types, clock,
          last, calls, req, res, num_workers, executor, pools, batch, alignment>>
\* The hierarchy of processors, and the worker pool with the batches dispatched to it.
hierarchy == <<children, ready, dirty, incremental_timestamp, entity_types>>
pool == <<num_workers, executor, pools, batch>>

----------------------------------------------------------------------------
(* The label universe.  The directory listing of path.get_domains and       *)
(* path.get_intents gives the children in a fixed order.                    *)

DomainOrder == <<"smart_home", "weather">>
IntentOrder == <<"close_door", "open_door">>
EntityOrder == <<"location">>

Range(s) == {s[k] : k \in DOMAIN s}
DomainLabels == Range(DomainOrder)
IntentLabels == Range(IntentOrder)
EntityTypes == Range(EntityOrder)
\* The entity types annotated in the training queries of an intent: the types its
\* recognizer can come to know.  Only close_door queries carry entities.
Annotated(p) == IF p[2] = "close_door" THEN EntityTypes ELSE {}

\* A query has at most MaxEntities entities.
MaxEntities == 1
\* The wall clock never goes past MaxClock in the model.
MaxClock == 2
\* Processor.__init__: self._incremental_timestamp = None
NoTs == 0

AllPaths ==
    {<<>>} \cup {<<d>> : d \in DomainLabels}
           \cup {<<d, i>> : d \in DomainLabels, i \in IntentLabels}
           \cup {<<d, i, e>> : d \in DomainLabels, i \in IntentLabels, e \in EntityTypes}
IntentPaths == {p \in AllPaths : Len(p) = 2}
Root == <<>>

\* The subsequence of order whose members are in S.
Ordered(order, S) == SelectSeq(order, LAMBDA x : x \in S)

\* An application's label taxonomy: at least one domain, each with at least one intent.
Taxonomies ==
    UNION {[D -> (SUBSET IntentLabels) \ {{}}] : D \in (SUBSET DomainLabels) \ {{}}}

\* The taxonomies the lifecycle is explored on: one domain with two intents, and two
\* domains with one intent each.
LifecycleTaxonomies ==
    {[d \in {"smart_home"} |-> IntentLabels],
     [d \in DomainLabels |-> IF d = "smart_home" THEN {"close_door"} ELSE {"open_door"}]}

\* NaturalLanguageProcessor.__init__ and DomainProcessor.__init__: one child per
\* domain and per intent of the taxonomy; an intent starts with no entity processor.
Constructed(tax) ==
    [p \in AllPaths |->
        IF p = Root THEN Ordered(DomainOrder, DOMAIN tax)
        ELSE IF Len(p) = 1 /\ p[1] \in DOMAIN tax THEN Ordered(IntentOrder, tax[p[1]])
        ELSE <<>>]

RECURSIVE Exists(_, _)
\* p is a processor of the hierarchy whose children are ch.
Exists(ch, p) ==
    \/ p = Root
    \/ /\ Len(p) > 0
       /\ LET parent == SubSeq(p, 1, Len(p) - 1)
          IN  Exists(ch, parent) /\ p[Len(p)] \in Range(ch[parent])

Nodes == {p \in AllPaths : Exists(children, p)}
IsPrefix(n, p) == Len(n) <= Len(p) /\ SubSeq(p, 1, Len(n)) = n
\* n and all its descendants.
SubtreeOf(ch, n) == {p \in AllPaths : IsPrefix(n, p) /\ Exists(ch, p)}
Subtree(n) == SubtreeOf(children, n)

----------------------------------------------------------------------------
(* The state a call works on, threaded through the recursion:              *)
(*   c children, r ready, d dirty, t incremental timestamps,               *)
(*   e entity types, calls the classifier calls made, err the exception.   *)

NoErr == "none"
ClassifierError == "ClassifierError"
NotReady == "ProcessorError: Processor not ready"
AllowedClassesNotFound == "AllowedNlpClassesKeyError: Could not find user inputted label"
UnknownLabelPath == "AllowedNlpClassesKeyError: not in the NLP component hierarchy"
InvalidArgument == "TypeError"
KeyError == "KeyError"
ValueError == "ValueError"

Current ==
    [c |-> children, r |-> ready, d |-> dirty, t |-> incremental_timestamp,
     e |-> entity_types, calls |-> <<>>, err |-> NoErr, at |-> Root]

\* What the environment does during one call:
\*   fail   the classifier call <<name, path>> that raises, <<>> if none does
\*   types  the entity types each recognizer finds when it is fit or loaded
\*   conn   the entity types whose resolver cannot be reached
NoFail == <<>>
TypeChoices(n) ==
    LET under == {p \in IntentPaths : IsPrefix(n, p) /\ Exists(children, p)}
    IN  {f \in [under -> SUBSET EntityTypes] : \A p \in under : f[p] \subseteq Annotated(p)}
NoTypes == [p \in {} |-> {}]

\* A call on a classifier: it is recorded, and raises if the environment says so.
Invoke(st, name, n, ts, env) ==
    LET logged == [st EXCEPT !.calls = Append(@, [call |-> name, node |-> n, ts |-> ts])]
    IN  IF env.fail = <<name, n>> THEN [logged EXCEPT !.err = ClassifierError, !.at = n]
        ELSE logged

\* IntentProcessor._build and _load: one new EntityProcessor per entity type of the
\* recognizer, stored under its type; a key already present keeps its place.
CreateEntityProcessors(st, n, env) ==
    LET types == env.types[n]
        fresh == {Append(n, e) : e \in types}
        added == Ordered(EntityOrder, types \ Range(st.c[n]))
    IN  [st EXCEPT !.e[n] = types,
                   !.c = [p \in AllPaths |-> IF p = n THEN st.c[n] \o added ELSE st.c[p]],
                   !.r = [p \in AllPaths |-> IF p \in fresh THEN FALSE ELSE st.r[p]],
                   !.d = [p \in AllPaths |-> IF p \in fresh THEN FALSE ELSE st.d[p]],
                   !.t = [p \in AllPaths |-> IF p \in fresh THEN NoTs ELSE st.t[p]]]

\* NaturalLanguageProcessor._build, DomainProcessor._build, IntentProcessor._build,
\* EntityProcessor._build
_build(st, n, incremental, env) ==
    CASE Len(n) = 0 ->
            LET s1 == IF incremental THEN [st EXCEPT !.t[n] = clock] ELSE st
            IN  IF Len(s1.c[n]) = 1 THEN s1
                ELSE Invoke(s1, "fit", n, s1.t[n], env)
      [] Len(n) = 1 ->
            IF Len(st.c[n]) = 1 THEN st
            ELSE Invoke(st, "fit", n, st.t[n], env)
      [] Len(n) = 2 ->
            LET s1 == Invoke(st, "fit", n, st.t[n], env)
            IN  IF s1.err # NoErr THEN s1 ELSE CreateEntityProcessors(s1, n, env)
      [] OTHER ->
            LET s1 == Invoke(st, "fit", n, st.t[n], env)
            IN  IF s1.err # NoErr THEN s1
                ELSE Invoke(s1, "resolver_fit", n, NoTs, env)

\* NaturalLanguageProcessor._dump, DomainProcessor._dump, IntentProcessor._dump,
\* EntityProcessor._dump
_dump(st, n, env) ==
    IF Len(n) <= 1 /\ Len(st.c[n]) = 1 THEN st
    ELSE Invoke(st, "dump", n, st.t[n], env)

\* The connection error of the resolver is not caught.
_load_ConnectionEscapes(st, n, ts, env) ==
    LET s1 == IF Len(n) <= 1 /\ Len(st.c[n]) = 1 THEN st
              ELSE Invoke(st, "load", n, ts, env)
    IN  IF s1.err # NoErr THEN s1
        ELSE IF Len(n) = 2 THEN CreateEntityProcessors(s1, n, env)
        ELSE IF Len(n) = 3 /\ n[3] \in env.conn
        THEN [Invoke(s1, "resolver_unreachable", n, NoTs, env)
                 EXCEPT !.err = ClassifierError, !.at = n]
        ELSE IF Len(n) = 3 THEN Invoke(s1, "resolver_load", n, NoTs, env)
        ELSE s1
\* NaturalLanguageProcessor._load, DomainProcessor._load, IntentProcessor._load,
\* EntityProcessor._load
_load(st, n, ts, env) ==
    CASE Len(n) <= 1 ->
            IF Len(st.c[n]) = 1 THEN st
            ELSE Invoke(st, "load", n, ts, env)
      [] Len(n) = 2 ->
            LET s1 == Invoke(st, "load", n, ts, env)
            IN  IF s1.err # NoErr THEN s1 ELSE CreateEntityProcessors(s1, n, env)
      [] OTHER ->
            LET s1 == Invoke(st, "load", n, ts, env)
            IN  IF s1.err # NoErr THEN s1
                ELSE IF n[3] \in env.conn
                     THEN \* EntityResolverConnectionError, caught and logged
                          Invoke(s1, "resolver_unreachable", n, NoTs, env)
                     ELSE Invoke(s1, "resolver_load", n, NoTs, env)

RECURSIVE build(_, _, _, _), buildChildren(_, _, _, _, _)
RECURSIVE dump(_, _, _), dumpChildren(_, _, _, _)
RECURSIVE load(_, _, _, _), loadChildren(_, _, _, _, _)

\* A dump that leaves the dirty flags as they are.
dump_KeepsDirty(st, n, env) ==
    LET s1 == _dump(st, n, env)
    IN  IF s1.err = NoErr THEN dumpChildren(s1, n, 1, env) ELSE s1

\* A load that does not load the children.
load_SelfOnly(st, n, ts, env) ==
    LET s1 == _load(st, n, ts, env)
    IN  IF s1.err = NoErr THEN [s1 EXCEPT !.r[n] = TRUE, !.d[n] = FALSE] ELSE s1

\* Processor.dump
dump(st, n, env) ==
    LET s1 == _dump(st, n, env)
        s2 == IF s1.err = NoErr THEN dumpChildren(s1, n, 1, env) ELSE s1
    IN  IF s2.err = NoErr THEN [s2 EXCEPT !.d[n] = FALSE] ELSE s2

\* Processor.dump: for child in self._children.values(): child.dump()
dumpChildren(st, n, k, env) ==
    IF st.err # NoErr \/ k > Len(st.c[n]) THEN st
    ELSE dumpChildren(dump(st, Append(n, st.c[n][k]), env), n, k + 1, env)

\* A build that saves the processor's own model after its children are built.
build_DumpsLast(st, n, incremental, env) ==
    LET s1 == _build(st, n, incremental, env)
        s2 == IF s1.err = NoErr THEN buildChildren(s1, n, 1, incremental, env) ELSE s1
        s3 == IF s2.err = NoErr /\ incremental THEN _dump(s2, n, env) ELSE s2
    IN  IF s3.err = NoErr THEN [s3 EXCEPT !.r[n] = TRUE, !.d[n] = TRUE] ELSE s3

\* A build that marks the processor ready and dirty also when it fails.
build_MarksFailed(st, n, incremental, env) ==
    LET s1 == _build(st, n, incremental, env)
        s2 == IF s1.err = NoErr /\ incremental THEN _dump(s1, n, env) ELSE s1
        s3 == IF s2.err = NoErr THEN buildChildren(s2, n, 1, incremental, env) ELSE s2
    IN  [s3 EXCEPT !.r[n] = TRUE, !.d[n] = TRUE]

\* Processor.build
build(st, n, incremental, env) ==
    LET s1 == _build(st, n, incremental, env)
        s2 == IF s1.err = NoErr /\ incremental THEN _dump(s1, n, env) ELSE s1
        s3 == IF s2.err = NoErr THEN buildChildren(s2, n, 1, incremental, env) ELSE s2
    IN  IF s3.err = NoErr THEN [s3 EXCEPT !.r[n] = TRUE, !.d[n] = TRUE] ELSE s3

\* Processor.build: the loop over self._children.values()
buildChildren(st, n, k, incremental, env) ==
    IF st.err # NoErr \/ k > Len(st.c[n]) THEN st
    ELSE LET child == Append(n, st.c[n][k])
             s1 == [st EXCEPT !.t[child] = st.t[n]]
             s2 == build(s1, child, incremental, env)
             s3 == IF s2.err = NoErr /\ incremental THEN dump(s2, child, env) ELSE s2
         IN  buildChildren(s3, n, k + 1, incremental, env)

\* Processor.load
load(st, n, ts, env) ==
    LET s1 == _load(st, n, ts, env)
        s2 == IF s1.err = NoErr THEN loadChildren(s1, n, 1, ts, env) ELSE s1
    IN  IF s2.err = NoErr THEN [s2 EXCEPT !.r[n] = TRUE, !.d[n] = FALSE] ELSE s2

\* Processor.load: for child in self._children.values(): child.load(...)
loadChildren(st, n, k, ts, env) ==
    IF st.err # NoErr \/ k > Len(st.c[n]) THEN st
    ELSE loadChildren(load(st, Append(n, st.c[n][k]), ts, env), n, k + 1, ts, env)

\* The classifier is evaluated however many children there are.
_evaluate_Always(st, n, env) ==
    Invoke([st EXCEPT !.calls = Append(@, [call |-> "_evaluate", node |-> n, ts |-> NoTs])], "evaluate", n, NoTs, env)
\* NaturalLanguageProcessor._evaluate, DomainProcessor._evaluate,
\* IntentProcessor._evaluate, EntityProcessor._evaluate: the classifier is evaluated
\* if it has more than one label; env.roles are the entity processors whose role
\* classifier has more than one role.
_evaluate(st, n, env) ==
    LET s1 == [st EXCEPT !.calls = Append(@, [call |-> "_evaluate", node |-> n, ts |-> NoTs])]
        labels == CASE Len(n) <= 1 -> Len(st.c[n])
                    [] Len(n) = 2 -> Cardinality(st.e[n])
                    [] OTHER -> IF n \in env.roles THEN 2 ELSE 1
    IN  IF labels > 1 THEN Invoke(s1, "evaluate", n, NoTs, env) ELSE s1

RECURSIVE evaluate(_, _, _), evaluateChildren(_, _, _, _)
\* Processor.evaluate
evaluate(st, n, env) ==
    LET s1 == _evaluate(st, n, env)
    IN  IF s1.err = NoErr THEN evaluateChildren(s1, n, 1, env) ELSE s1

\* Processor.evaluate: for child in self._children.values(): child.evaluate(...)
evaluateChildren(st, n, k, env) ==
    IF st.err # NoErr \/ k > Len(st.c[n]) THEN st
    ELSE evaluateChildren(evaluate(st, Append(n, st.c[n][k]), env), n, k + 1, env)

----------------------------------------------------------------------------
(* Label selection and process_query.  A call takes the behaviour of the    *)
(* classifiers on its query as an input:                                    *)
(*   dranking  the labels predict_proba of the domain classifier returns,   *)
(*             by descending confidence; predict returns the first          *)
(*   iranking  the same for the intent classifier of the selected domain    *)
(*   ents      the types of the entities the recognizer finds, in order     *)

\* No probability list: domain_proba = None, intent_proba = None
NoProba == <<>>
\* The confidence 1.0 of a label selected without the classifier, in percent.
Certain == 100
\* Classifier.predict_proba: (label, confidence) pairs by descending confidence.
predict_proba(ranking) == [k \in 1..Len(ranking) |-> <<ranking[k], Certain - k>>]
\* Classifier.predict
predict(ranking) == ranking[1]

\* The empty dict
NoDict == [x \in {} |-> {}]
\* An optional dict argument: given is FALSE for None; keys are the dict's keys.
None == [given |-> FALSE, dict |-> NoDict]
Some(dict) == [given |-> TRUE, dict |-> dict]
\* The empty dict is taken for a restriction: only None is false.
Truthy_NotNone(allowed) == allowed.given
\* Python's truth value of the argument: None and the empty dict are false.
Truthy(allowed) == allowed.given /\ DOMAIN allowed.dict # {}
\* allowed_nlp_classes.get(domain) if allowed_nlp_classes else None, as the dict
\* whose keys are the intents: the values of the inner dict are all empty.
\* The restriction on the intents is dropped.
Get_None(allowed, domain) == None
Get(allowed, domain) ==
    IF Truthy(allowed) /\ domain \in DOMAIN allowed.dict
    THEN Some([i \in allowed.dict[domain] |-> {}])
    ELSE None

\* Some label that is no key of the dict.
OnlyKey_Other(dict) == ""
\* The child is not taken.
FirstKey_None(keys) == ""
\* list(allowed_nlp_classes.keys())[0] of a dict with one key
OnlyKey(dict) == CHOOSE k \in DOMAIN dict : TRUE
\* list(self.domains.keys())[0], list(self.intents.keys())[0]
FirstKey(keys) == keys[1]

\* The restriction is ignored: the top of the ranking is taken.
FirstIn_Top(ranking, keys) == IF Len(ranking) > 0 THEN 1 ELSE 0
\* The label of the restriction that comes last in the ranking is taken.
FirstIn_LastHit(ranking, keys) ==
    LET hits == {k \in 1..Len(ranking) : ranking[k] \in keys}
    IN  IF hits = {} THEN 0 ELSE CHOOSE k \in hits : \A j \in hits : k >= j
\* for ordered_domain, _ in sorted_domains: if ordered_domain in
\* allowed_nlp_classes.keys(); 0 when the loop ends without a label
FirstIn(ranking, keys) ==
    LET hits == {k \in 1..Len(ranking) : ranking[k] \in keys}
    IN  IF hits = {} THEN 0 ELSE CHOOSE k \in hits : \A j \in hits : k <= j

Selected(label, proba, cs) == [err |-> NoErr, label |-> label, proba |-> proba, calls |-> cs]
\* One label selection as the caller of the tier sees it: the processor, its restriction
\* and verbose flag, the ranking its classifier would give, and what the selection did.
Tier(n, allowed_nlp_classes, verbose, ranking, sel) ==
    <<[node |-> n, allowed |-> allowed_nlp_classes, verbose |-> verbose,
       ranking |-> ranking, err |-> sel.err, label |-> sel.label, proba |-> sel.proba,
       calls |-> sel.calls]>>
Used(name, n) == <<[call |-> name, node |-> n, ts |-> NoTs]>>

\* NaturalLanguageProcessor._process_domain
_process_domain(ch, allowed_nlp_classes, verbose, dranking) ==
    IF Len(ch[Root]) > 1
    THEN IF ~Truthy(allowed_nlp_classes)
         THEN IF verbose
              THEN Selected(predict_proba(dranking)[1][1], predict_proba(dranking),
                            Used("predict_proba", Root))
              ELSE Selected(predict(dranking), NoProba, Used("predict", Root))
         ELSE IF Cardinality(DOMAIN allowed_nlp_classes.dict) = 1
              THEN LET domain == OnlyKey(allowed_nlp_classes.dict)
                   IN  Selected(domain, IF verbose THEN <<<<domain, Certain>>>> ELSE NoProba,
                                <<>>)
              ELSE LET sorted_domains == predict_proba(dranking)
                       k == FirstIn(dranking, DOMAIN allowed_nlp_classes.dict)
                       domain_proba == IF verbose THEN sorted_domains ELSE NoProba
                   IN  IF k > 0
                       THEN Selected(sorted_domains[k][1], domain_proba,
                                     Used("predict_proba", Root))
                       ELSE [Selected("", NoProba, Used("predict_proba", Root))
                                EXCEPT !.err = AllowedClassesNotFound]
    ELSE LET domain == FirstKey(ch[Root])
         IN  Selected(domain, IF verbose THEN <<<<domain, Certain>>>> ELSE NoProba, <<>>)

\* The restriction is not consulted: the top of the ranking is the intent.
select_intent_TopOfRanking(ch, n, allowed_nlp_classes, verbose, iranking) ==
    IF Len(ch[n]) > 1
    THEN Selected(predict(iranking), IF verbose THEN predict_proba(iranking) ELSE NoProba,
                  Used("predict_proba", n))
    ELSE Selected(FirstKey(ch[n]),
                  IF verbose THEN <<<<FirstKey(ch[n]), Certain>>>> ELSE NoProba, <<>>)

\* DomainProcessor.process_query, from intent_proba = None to the selection of intent
select_intent(ch, n, allowed_nlp_classes, verbose, iranking) ==
    IF Len(ch[n]) > 1
    THEN IF ~Truthy(allowed_nlp_classes)
         THEN IF verbose
              THEN Selected(predict_proba(iranking)[1][1], predict_proba(iranking),
                            Used("predict_proba", n))
              ELSE Selected(predict(iranking), NoProba, Used("predict", n))
         ELSE IF Cardinality(DOMAIN allowed_nlp_classes.dict) = 1
              THEN LET intent == OnlyKey(allowed_nlp_classes.dict)
                   IN  Selected(intent, IF verbose THEN <<<<intent, Certain>>>> ELSE NoProba,
                                <<>>)
              ELSE LET sorted_intents == predict_proba(iranking)
                       k == FirstIn(iranking, DOMAIN allowed_nlp_classes.dict)
                       intent_proba == IF verbose THEN sorted_intents ELSE NoProba
                   IN  IF k > 0
                       THEN Selected(sorted_intents[k][1], intent_proba,
                                     Used("predict_proba", n))
                       ELSE [Selected("", NoProba, Used("predict_proba", n))
                                EXCEPT !.err = AllowedClassesNotFound]
    ELSE LET intent == FirstKey(ch[n])
         IN  Selected(intent, IF verbose THEN <<<<intent, Certain>>>> ELSE NoProba, <<>>)

\* What a process call gives back: the exception err raised by processor at, or the
\* fields of the ProcessedQuery.
Failed(err, at, cs) ==
    [err |-> err, at |-> at, domain |-> "", intent |-> "", domain_proba |-> NoProba,
     intent_proba |-> NoProba, calls |-> cs, sel |-> <<>>, batches |-> <<>>]

\* A call of Processor._process_list by processor n: func on so many items, and whether
\* func raises on one of them.
Task(func, n, items, fails) ==
    <<[func |-> func, node |-> n, items |-> items, fails |-> fails]>>

\* Processor._check_ready
_check_ready(rd, n) == rd[n]

RECURSIVE process_entities(_, _, _, _, _, _)
\* IntentProcessor._process_entities: for each entity, process_entity and
\* resolve_entity of the EntityProcessor of its type, each after _check_ready.
process_entities(rd, n, verbose, ents, k, cs) ==
    IF k > Len(ents) THEN [Failed(NoErr, n, cs) EXCEPT !.intent = n[2], !.domain = n[1]]
    ELSE LET e == Append(n, ents[k])
             checked == cs \o Used("_check_ready", e)
         IN  IF ~_check_ready(rd, e) THEN Failed(NotReady, e, checked)
             ELSE process_entities(rd, n, verbose, ents, k + 1,
                                   checked \o Used("resolver_predict", e))

\* IntentProcessor.process_query: the recognizer on the first transcript, then
\* _process_entities, which hands the entities to _process_list.
IntentProcessor_process_query(rd, n, verbose, inp) ==
    IF ~_check_ready(rd, n) THEN Failed(NotReady, n, Used("_check_ready", n))
    ELSE LET pq == process_entities(rd, n, verbose, inp.ents, 1,
                       Used("_check_ready", n)
                           \o Used(IF verbose THEN "predict_proba" ELSE "predict", n)
                           \o Used("_process_list", n))
         IN  [pq EXCEPT !.batches = Task("_classify_and_resolve_entities", n,
                                         Len(inp.ents), pq.err # NoErr)]

\* DomainProcessor.process_query
DomainProcessor_process_query(ch, rd, n, allowed_nlp_classes, verbose, inp) ==
    IF ~_check_ready(rd, n) THEN Failed(NotReady, n, Used("_check_ready", n))
    ELSE LET sel == select_intent(ch, n, allowed_nlp_classes, verbose, inp.iranking)
             tier == Tier(n, allowed_nlp_classes, verbose, inp.iranking, sel)
             cs == Used("_check_ready", n) \o sel.calls
         IN  IF sel.err # NoErr THEN [Failed(sel.err, n, cs) EXCEPT !.sel = tier]
             ELSE IF sel.label \notin Range(ch[n])
             THEN [Failed(KeyError, n, cs) EXCEPT !.sel = tier]
             ELSE LET pq == IntentProcessor_process_query(rd, Append(n, sel.label),
                                                         verbose, inp)
                  IN  IF pq.err # NoErr
                      THEN [pq EXCEPT !.calls = cs \o @, !.sel = tier \o @]
                      ELSE [pq EXCEPT !.calls = cs \o @, !.sel = tier \o @,
                                      !.intent = sel.label,
                                      !.intent_proba = sel.proba]

\* NaturalLanguageProcessor.process_query
NaturalLanguageProcessor_process_query(ch, rd, allowed_nlp_classes, verbose, inp) ==
    IF ~_check_ready(rd, Root) THEN Failed(NotReady, Root, Used("_check_ready", Root))
    ELSE LET sel == _process_domain(ch, allowed_nlp_classes, verbose, inp.dranking)
             tier == Tier(Root, allowed_nlp_classes, verbose, inp.dranking, sel)
             cs == Used("_check_ready", Root) \o sel.calls
         IN  IF sel.err # NoErr THEN [Failed(sel.err, Root, cs) EXCEPT !.sel = tier]
             ELSE IF sel.label \notin Range(ch[Root])
             THEN [Failed(KeyError, Root, cs) EXCEPT !.sel = tier]
             ELSE LET allowed_intents == Get(allowed_nlp_classes, sel.label)
                      pq == DomainProcessor_process_query(ch, rd, <<sel.label>>,
                                                          allowed_intents, verbose, inp)
                  IN  IF pq.err # NoErr
                      THEN [pq EXCEPT !.calls = cs \o @, !.sel = tier \o @]
                      ELSE [pq EXCEPT !.calls = cs \o @, !.sel = tier \o @,
                                      !.domain = sel.label,
                                      !.domain_proba = sel.proba]

----------------------------------------------------------------------------
(* Allowed label paths.  An entry is the sequence of its tokens, a token     *)
(* being a label, the wildcard or the separator: "smart_home.close_door"    *)
(* is <<"smart_home", ".", "close_door">>.  A field is the sequence of the  *)
(* tokens between two separators.                                           *)

Wildcard == "*"
Dot == "."
RECURSIVE split_from(_, _, _, _)
split_from(allowed_intent, k, field, fields) ==
    IF k > Len(allowed_intent) THEN Append(fields, field)
    ELSE IF allowed_intent[k] = Dot
         THEN split_from(allowed_intent, k + 1, <<>>, Append(fields, field))
         ELSE split_from(allowed_intent, k + 1, Append(field, allowed_intent[k]), fields)
\* allowed_intent.split(".")
split(allowed_intent) == split_from(allowed_intent, 1, <<>>, <<>>)
\* The key of a child as a field, and the other way round.
Field(label) == <<label>>
\* Every label of the universe passes for a key.
Keys_All(seq) == {Field(x) : x \in DomainLabels \cup IntentLabels}
Keys(seq) == {Field(x) : x \in Range(seq)}
Label(field) == field[1]

RECURSIVE extract_from(_, _, _, _)
\* NaturalLanguageProcessor.extract_allowed_intents: the loop, from entry k on, with
\* nlp_components: domain -> set of the keys of its dict of intents.
extract_from(ch, allowed_intents, k, nlp_components) ==
    IF k > Len(allowed_intents) THEN [err |-> NoErr, dict |-> nlp_components]
    ELSE LET fields == split(allowed_intents[k])
         IN  IF Len(fields) # 2 THEN [err |-> ValueError, dict |-> nlp_components]
             ELSE LET domain == fields[1]
                      intent == fields[2]
                  IN  IF domain \notin Keys(ch[Root])
                      THEN [err |-> UnknownLabelPath, dict |-> nlp_components]
                      ELSE IF intent # Field(Wildcard)
                              /\ intent \notin Keys(ch[<<Label(domain)>>])
                      THEN [err |-> UnknownLabelPath, dict |-> nlp_components]
                      ELSE LET old == IF Label(domain) \in DOMAIN nlp_components
                                      THEN nlp_components[Label(domain)] ELSE {}
                               new == IF intent = Field(Wildcard)
                                      THEN old \cup Range(ch[<<Label(domain)>>])
                                      ELSE old \cup {Label(intent)}
                           IN  extract_from(ch, allowed_intents, k + 1,
                                   [d \in DOMAIN nlp_components \cup {Label(domain)} |->
                                       IF d = Label(domain) THEN new
                                       ELSE nlp_components[d]])

\* Only the last entry counts.
extract_allowed_intents_LastOnly(ch, allowed_intents) ==
    extract_from(ch, allowed_intents, IF Len(allowed_intents) > 0 THEN Len(allowed_intents) ELSE 1,
                 NoDict)
\* NaturalLanguageProcessor.extract_allowed_intents
extract_allowed_intents(ch, allowed_intents) ==
    extract_from(ch, allowed_intents, 1, NoDict)

\* Processor.create_query: a list of transcripts (inp.texts of them) is handed to
\* _process_list, one task per transcript; a single text is made a query on the spot.
create_query(inp) ==
    IF inp.texts > 0
    THEN [Failed(NoErr, Root, Used("_process_list", Root))
             EXCEPT !.batches = Task("create_query", Root, inp.texts, FALSE)]
    ELSE Failed(NoErr, Root, Used("create_query", Root))

\* Processor.process, of the root: create_query, then process_query.
Processor_process(ch, rd, allowed_nlp_classes, verbose, inp) ==
    LET query == create_query(inp)
        pq == NaturalLanguageProcessor_process_query(ch, rd, allowed_nlp_classes, verbose, inp)
    IN  [pq EXCEPT !.calls = query.calls \o @, !.batches = query.batches \o @]

\* The readiness check comes before the check of the arguments.
process_ReadyFirst(ch, rd, allowed_nlp_classes, allowed_intents, verbose, inp) ==
    IF ~_check_ready(rd, Root) THEN Failed(NotReady, Root, Used("_check_ready", Root))
    ELSE IF allowed_intents.given /\ allowed_nlp_classes.given
    THEN Failed(InvalidArgument, Root, Used("_check_ready", Root))
    ELSE Processor_process(ch, rd, allowed_nlp_classes, verbose, inp)
\* NaturalLanguageProcessor.process: allowed_intents is given (a list) or None, and so
\* is allowed_nlp_classes (a dict).
process(ch, rd, allowed_nlp_classes, allowed_intents, verbose, inp) ==
    IF allowed_intents.given /\ allowed_nlp_classes.given
    THEN Failed(InvalidArgument, Root, <<>>)
    ELSE LET extracted == IF allowed_intents.given /\ Len(allowed_intents.list) > 0
                          THEN extract_allowed_intents(ch, allowed_intents.list)
                          ELSE [err |-> NoErr, dict |-> allowed_nlp_classes.dict]
             classes == IF allowed_intents.given /\ Len(allowed_intents.list) > 0
                        THEN Some(extracted.dict) ELSE allowed_nlp_classes
             cs == IF allowed_intents.given /\ Len(allowed_intents.list) > 0
                   THEN Used("extract_allowed_intents", Root) ELSE <<>>
         IN  IF extracted.err # NoErr THEN Failed(extracted.err, Root, cs)
             ELSE LET pq == Processor_process(ch, rd, classes, verbose, inp)
                  IN  [pq EXCEPT !.calls = cs \o @]

----------------------------------------------------------------------------
NoList == [given |-> FALSE, list |-> <<>>]
NoInput == [dranking |-> <<>>, iranking |-> <<>>, ents |-> <<>>, texts |-> 0]
NoReq == [allowed_nlp_classes |-> None, allowed_intents |-> NoList, verbose |-> FALSE,
          inp |-> NoInput]
NoRes == [domain |-> "", intent |-> "", domain_proba |-> NoProba, intent_proba |-> NoProba,
          sel |-> <<>>, dict |-> NoDict, dispatched |-> <<>>]

\* The hierarchy takes the state st a call left behind, also when the call raised.
Commit(st) ==
    /\ children' = st.c
    /\ ready' = st.r
    /\ dirty' = st.d
    /\ incremental_timestamp' = st.t
    /\ entity_types' = st.e
    /\ calls' = st.calls
    /\ UNCHANGED <<pool, alignment>>

Called(op, n, incremental, ts, err, at) ==
    [op |-> op, node |-> n, incremental |-> incremental, ts |-> ts, err |-> err]

\* No call is in progress: the caller has taken the result of the last one.
Idle == Called("idle", Root, FALSE, NoTs, NoErr, Root)

\* executor is None
NoExecutor == 0
\* default_num_workers = cpu_count() + 1, on a machine with one processor
Workers == 2
Running == "running"
Shutdown == "shutdown"
Broken == "broken"
\* ProcessPoolExecutor(max_workers=num_workers): a new pool, its workers alive
ProcessPoolExecutor(max_workers) == [max_workers |-> max_workers, state |-> Running]
\* No call of _process_list is in progress in a thread.
NoBatch ==
    [pc |-> "idle", items |-> <<>>, futures |-> <<>>, results |-> <<>>, collected |-> {},
     ran |-> <<>>, out |-> <<>>, err |-> NoErr, first |-> NoExecutor, cause |-> "",
     order |-> <<>>]
\* A pool is created whatever the count.
Imported_PoolAnyway(n, threads) ==
    /\ num_workers = n
    /\ executor = 1
    /\ pools = <<ProcessPoolExecutor(n)>>
    /\ batch = [c \in 1..threads |-> NoBatch]
\* The module as imported with MM_SUBPROCESS_COUNT = n, used by so many threads.
Imported(n, threads) ==
    /\ num_workers = n
    /\ executor = IF n > 0 THEN 1 ELSE NoExecutor
    /\ pools = IF n > 0 THEN <<ProcessPoolExecutor(n)>> ELSE <<>>
    /\ batch = [c \in 1..threads |-> NoBatch]

\* _align_entities has not been called.
NoAlignment ==
    [nbest_transcripts_enabled |-> FALSE, entities |-> <<>>, aligned_entities |-> <<>>,
     matched |-> <<>>, pointer |-> <<>>]

\* The hierarchy as constructed for one of the taxonomies.
InitOf(taxonomies) ==
    /\ children \in {Constructed(tax) : tax \in taxonomies}
    /\ ready = [p \in AllPaths |-> FALSE]
    /\ dirty = [p \in AllPaths |-> FALSE]
    /\ incremental_timestamp = [p \in AllPaths |-> NoTs]
    /\ entity_types = [p \in IntentPaths |-> {}]
    /\ clock = 1
    /\ last = Idle
    /\ calls = <<>>
    /\ req = NoReq
    /\ res = NoRes
    /\ alignment = NoAlignment

\* The lifecycle and the label selection are followed with MM_SUBPROCESS_COUNT = 0:
\* every _process_list runs in the calling process.
Init == InitOf(LifecycleTaxonomies) /\ Imported(0, 0)

\* The caller takes the result of a call; only then does it make the next call.
Return ==
    /\ last # Idle
    /\ last' = Idle
    /\ calls' = <<>>
    /\ req' = NoReq
    /\ res' = NoRes
    /\ UNCHANGED <<hierarchy, clock, pool, alignment>>

\* time passes
Tick ==
    /\ last = Idle
    /\ clock < MaxClock
    /\ clock' = clock + 1
    /\ UNCHANGED <<hierarchy, last, calls, req, res, pool, alignment>>

Build(n, incremental, env) ==
    LET st == build(Current, n, incremental, env)
    IN  /\ Commit(st)
        /\ last' = Called("build", n, incremental, NoTs, st.err, st.at)
        /\ req' = NoReq /\ res' = NoRes
        /\ UNCHANGED clock

Dump(n, env) ==
    LET st == dump(Current, n, env)
    IN  /\ Commit(st)
        /\ last' = Called("dump", n, FALSE, NoTs, st.err, st.at)
        /\ req' = NoReq /\ res' = NoRes
        /\ UNCHANGED clock

Load(n, ts, env) ==
    LET st == load(Current, n, ts, env)
    IN  /\ Commit(st)
        /\ last' = Called("load", n, FALSE, ts, st.err, st.at)
        /\ req' = NoReq /\ res' = NoRes
        /\ UNCHANGED clock

\* restart_subprocesses: the pool of the global executor shut down without waiting,
\* and the global set to a new pool of workers processes.
restart_subprocesses(px, workers) ==
    [executor |-> Len(px.pools) + 1,
     pools |-> Append([px.pools EXCEPT ![px.executor].state = Shutdown],
                      ProcessPoolExecutor(workers)),
     dispatched |-> px.dispatched]

\* Processor._process_list as one step, for the task b: with no executor, or with no
\* item to submit, the pool is not used; the batch completes in the pool when the
\* pool runs, func raises on no item and the workers answer in time (completes); in
\* every other case the pool is restarted and the items are run in the caller.
_process_list_of(px, workers, b, completes) ==
    LET done == px.executor # NoExecutor
                   /\ (b.items = 0 \/ (completes /\ ~b.fails
                                          /\ px.pools[px.executor].state = Running))
        seen == [func |-> b.func, node |-> b.node, items |-> b.items,
                 executor |-> px.executor, completed |-> done]
        after == IF px.executor = NoExecutor \/ done THEN px
                 ELSE restart_subprocesses(px, workers)
    IN  [after EXCEPT !.dispatched = Append(px.dispatched, seen)]

RECURSIVE _process_lists(_, _, _, _, _)
\* The calls of _process_list a process call made, from the k-th on, in order.
_process_lists(px, workers, batches, outcomes, k) ==
    IF k > Len(batches) THEN px
    ELSE _process_lists(_process_list_of(px, workers, batches[k], outcomes[k]),
                        workers, batches, outcomes, k + 1)

\* The pools there can ever be: a batch that would need one more is not followed.
MaxPools == 3

\* A process call leaves the hierarchy as it is; each of its batches completes in the
\* pool or not, as the workers choose (outcomes).
Returned(op, n, request, pq) ==
    /\ last' = Called(op, n, FALSE, NoTs, pq.err, pq.at)
    /\ calls' = pq.calls
    /\ req' = request
    /\ \E outcomes \in [DOMAIN pq.batches -> IF executor = NoExecutor THEN {FALSE} ELSE BOOLEAN] :
           LET px == _process_lists([executor |-> executor, pools |-> pools,
                                     dispatched |-> <<>>],
                                    num_workers, pq.batches, outcomes, 1)
           IN  /\ Len(px.pools) <= MaxPools
               /\ executor' = px.executor
               /\ pools' = px.pools
               /\ res' = [domain |-> pq.domain, intent |-> pq.intent,
                          domain_proba |-> pq.domain_proba, intent_proba |-> pq.intent_proba,
                          sel |-> pq.sel, dict |-> NoDict, dispatched |-> px.dispatched]
    /\ UNCHANGED <<hierarchy, clock, num_workers, batch, alignment>>

Request(allowed_nlp_classes, allowed_intents, verbose, inp) ==
    [allowed_nlp_classes |-> allowed_nlp_classes, allowed_intents |-> allowed_intents,
     verbose |-> verbose, inp |-> inp]

\* The rankings a classifier can return: its labels are those of the children it was
\* trained for, and it ranks at least one.  A node with one child has no classifier.
RECURSIVE Perms(_)
Perms(S) ==
    IF S = {} THEN {<<>>}
    ELSE UNION {{<<x>> \o p : p \in Perms(S \ {x})} : x \in S}
Rankings(labels) ==
    IF Cardinality(labels) <= 1 THEN {<<>>}
    ELSE UNION {Perms(L) : L \in (SUBSET labels) \ {{}}}
\* The entities a recognizer finds are of the types it knows.
Recognized(n) == UNION {[1..k -> entity_types[n]] : k \in 0..MaxEntities}

\* The classifier behaviours a process_query on intent n can meet.
IntentInputs(n) == {[NoInput EXCEPT !.ents = es] : es \in Recognized(n)}

\* ... on domain n: a ranking of its intents, then the entities of the selected one.
DomainInputs(n, allowed_nlp_classes, verbose) ==
    UNION {{[inp EXCEPT !.iranking = ir] : inp \in
               LET sel == select_intent(children, n, allowed_nlp_classes, verbose, ir)
               IN  IF sel.err = NoErr /\ sel.label \in Range(children[n])
                   THEN IntentInputs(Append(n, sel.label))
                   ELSE {NoInput}}
           : ir \in Rankings(Range(children[n]))}

\* ... on the root: a ranking of the domains, then what the selected domain can meet.
RootInputs(allowed_nlp_classes, verbose) ==
    UNION {{[inp EXCEPT !.dranking = dr] : inp \in
               LET sel == _process_domain(children, allowed_nlp_classes, verbose, dr)
               IN  IF sel.err = NoErr /\ sel.label \in Range(children[Root])
                   THEN DomainInputs(<<sel.label>>, Get(allowed_nlp_classes, sel.label),
                                     verbose)
                   ELSE {NoInput}}
           : dr \in Rankings(Range(children[Root]))}

\* Labels a caller can name that no application has.
OtherDomains == {"banking", "music"}
OtherIntents == {"get_balance", "play_song"}
\* The dicts a caller can pass as allowed_nlp_classes: None, or domain -> intents, with
\* every subset of the intents of the applications, or any set of domains, known or
\* not, all with the same intents.
AllowedClasses ==
    {None}
      \cup {Some(f) : f \in UNION {[D -> SUBSET IntentLabels] : D \in SUBSET DomainLabels}}
      \cup {Some([d \in D |-> I]) : D \in SUBSET (DomainLabels \cup OtherDomains),
                                     I \in {{}, OtherIntents}}
\* The same for a DomainProcessor: None, or a dict keyed by intents, known or not.
AllowedIntentClasses ==
    {None} \cup {Some([i \in I |-> {}]) : I \in SUBSET (IntentLabels \cup OtherIntents)}

\* NaturalLanguageProcessor.process_query
ProcessQueryRoot(allowed_nlp_classes, verbose, inp) ==
    Returned("process_query", Root, Request(allowed_nlp_classes, NoList, verbose, inp),
             NaturalLanguageProcessor_process_query(children, ready, allowed_nlp_classes,
                                                    verbose, inp))

\* DomainProcessor.process_query
ProcessQueryDomain(n, allowed_nlp_classes, verbose, inp) ==
    LET pq == DomainProcessor_process_query(children, ready, n, allowed_nlp_classes,
                                            verbose, inp)
    IN  Returned("process_query", n, Request(allowed_nlp_classes, NoList, verbose, inp),
                 IF pq.err = NoErr THEN [pq EXCEPT !.domain = ""] ELSE pq)

\* IntentProcessor.process_query
ProcessQueryIntent(n, verbose, inp) ==
    LET pq == IntentProcessor_process_query(ready, n, verbose, inp)
    IN  Returned("process_query", n, Request(None, NoList, verbose, inp),
                 IF pq.err = NoErr THEN [pq EXCEPT !.domain = "", !.intent = ""] ELSE pq)

\* EntityProcessor.process_entity and EntityProcessor.resolve_entity
ProcessEntity(n, op) ==
    Returned(op, n, Request(None, NoList, FALSE, NoInput),
             IF ~_check_ready(ready, n) THEN Failed(NotReady, n, Used("_check_ready", n))
             ELSE Failed(NoErr, n, Used("_check_ready", n)))

\* The classifier calls that can raise during a call: those it makes when none does.
Failures(st) == {NoFail} \cup {<<st.calls[k].call, st.calls[k].node>> : k \in DOMAIN st.calls}
Env(fail, types, conn) == [fail |-> fail, types |-> types, conn |-> conn]

\* The processors build, dump and load are called on.
Targets == {Root}

BuildAny ==
    /\ last = Idle
    /\ \E n \in Targets, incremental \in BOOLEAN : \E types \in TypeChoices(n) :
           \E fail \in Failures(build(Current, n, incremental, Env(NoFail, types, {}))) :
               Build(n, incremental, Env(fail, types, {}))

DumpAny ==
    /\ last = Idle
    /\ \E n \in Targets : \E fail \in Failures(dump(Current, n, Env(NoFail, NoTypes, {}))) :
           Dump(n, Env(fail, NoTypes, {}))

\* The entity types that have a processor in the state st.
Present(st) == {e \in EntityTypes : \E p \in IntentPaths : e \in Range(st.c[p])}

LoadAny ==
    /\ last = Idle
    /\ \E n \in Targets, ts \in {NoTs} \cup 1..clock : \E types \in TypeChoices(n) :
           \E conn \in SUBSET Present(load(Current, n, ts, Env(NoFail, types, {}))) :
               \E fail \in Failures(load(Current, n, ts, Env(NoFail, types, conn))) :
                   Load(n, ts, Env(fail, types, conn))

ProcessAny ==
    /\ last = Idle
    /\ \/ \E inp \in RootInputs(None, FALSE) : ProcessQueryRoot(None, FALSE, inp)
       \/ \E n \in {p \in Nodes : Len(p) = 1} :
              \E inp \in DomainInputs(n, None, FALSE) : ProcessQueryDomain(n, None, FALSE, inp)
       \/ \E n \in {p \in Nodes : Len(p) = 2} :
              \E inp \in IntentInputs(n) : ProcessQueryIntent(n, FALSE, inp)
       \/ \E n \in {p \in Nodes : Len(p) = 3}, op \in {"process_entity", "resolve_entity"} :
              ProcessEntity(n, op)

Next == BuildAny \/ DumpAny \/ LoadAny \/ ProcessAny \/ Return

\* The lifecycle of the whole hierarchy, where any classifier call can raise.
Spec == Init /\ [][Next]_vars

----------------------------------------------------------------------------
(* build, dump and load called on any processor of the hierarchy, with no   *)
(* call raising.                                                            *)

InitNodes == InitOf(LifecycleTaxonomies) /\ Imported(0, 0)

BuildNode ==
    /\ last = Idle
    /\ \E n \in Nodes, incremental \in BOOLEAN : \E types \in TypeChoices(n) :
           Build(n, incremental, Env(NoFail, types, {}))

DumpNode == last = Idle /\ \E n \in Nodes : Dump(n, Env(NoFail, NoTypes, {}))

LoadNode ==
    /\ last = Idle
    /\ \E n \in Nodes, ts \in {NoTs} \cup 1..clock : \E types \in TypeChoices(n) :
           \E conn \in SUBSET Present(load(Current, n, ts, Env(NoFail, types, {}))) :
               Load(n, ts, Env(NoFail, types, conn))

NextNodes == BuildNode \/ DumpNode \/ LoadNode \/ Tick \/ Return

SpecNodes == InitNodes /\ [][NextNodes]_vars

----------------------------------------------------------------------------
(* The selection of the domain and the selection of the intent, side by     *)
(* side: a domain processor whose intents have the names of the domains of  *)
(* the application gets the restriction, the ranking and the verbose flag   *)
(* the root gets.                                                           *)

\* The restrictions: None, or a dict whose keys are labels, known or not.
TierRestrictions ==
    {None} \cup {Some([d \in D |-> {}]) : D \in SUBSET (DomainLabels \cup OtherDomains)}

InitTiers == InitOf(Taxonomies) /\ Imported(0, 0)

SelectInBothTiers ==
    /\ last = Idle
    /\ \E allowed_nlp_classes \in TierRestrictions, verbose \in BOOLEAN,
          ranking \in Rankings(Range(children[Root])) :
           LET n == <<children[Root][1]>>
               intents == [p \in {n} |-> children[Root]]
           IN  /\ last' = Called("select", Root, FALSE, NoTs, NoErr, Root)
               /\ calls' = <<>>
               /\ req' = Request(allowed_nlp_classes, NoList, verbose,
                                 [NoInput EXCEPT !.dranking = ranking, !.iranking = ranking])
               /\ res' = [NoRes EXCEPT !.sel =
                             Tier(Root, allowed_nlp_classes, verbose, ranking,
                                  _process_domain(children, allowed_nlp_classes, verbose,
                                                  ranking))
                             \o Tier(n, allowed_nlp_classes, verbose, ranking,
                                     select_intent(intents, n, allowed_nlp_classes, verbose,
                                                   ranking))]
               /\ UNCHANGED <<hierarchy, clock, pool, alignment>>

NextTiers == SelectInBothTiers \/ Return

SpecTiers == InitTiers /\ [][NextTiers]_vars

----------------------------------------------------------------------------
(* evaluate called on any processor of a hierarchy that was built or loaded,   *)
(* with no call raising.                                                     *)

InitEvaluate == InitOf(LifecycleTaxonomies) /\ Imported(0, 0)

Evaluate(n, env) ==
    LET st == evaluate(Current, n, env)
    IN  /\ Commit(st)
        /\ last' = Called("evaluate", n, FALSE, NoTs, st.err, st.at)
        /\ req' = NoReq /\ res' = NoRes
        /\ UNCHANGED clock

EvaluateNode ==
    /\ last = Idle
    /\ \E n \in Nodes, roles \in SUBSET {p \in Nodes : Len(p) = 3} :
           Evaluate(n, [fail |-> NoFail, roles |-> roles])

NextEvaluate == BuildNode \/ LoadNode \/ EvaluateNode \/ Return

SpecEvaluate == InitEvaluate /\ [][NextEvaluate]_vars

----------------------------------------------------------------------------
(* Processing, for every taxonomy: the hierarchy is built, saved or loaded  *)
(* as a whole with no call raising, and queries are processed with every    *)
(* restriction and every classifier ranking.                                *)

\* An allowed_intents list has at most MaxListLen entries.
MaxListLen == 2

\* "domain.intent"
Entry(domain, intent) == <<domain, Dot, intent>>
WellFormed == {Entry(d, i) : d \in DomainLabels, i \in IntentLabels \cup {Wildcard}}
\* one entry without a separator and one with two
Malformed == {<<"smart_home">>, <<"smart_home", Dot, "close_door", Dot, "open_door">>}
Lists(entries) == UNION {[1..k -> entries] : k \in 0..MaxListLen}
SomeList(list) == [given |-> TRUE, list |-> list]

\* Every recognizer knows all the entity types annotated for its intent.
Trained(n) ==
    [p \in {q \in IntentPaths : IsPrefix(n, q) /\ Exists(children, q)} |-> Annotated(p)]

InitProcess == InitOf(Taxonomies) /\ Imported(0, 0)

BuildRoot ==
    /\ last = Idle
    /\ \E incremental \in BOOLEAN : Build(Root, incremental, Env(NoFail, Trained(Root), {}))

DumpRoot == last = Idle /\ Dump(Root, Env(NoFail, NoTypes, {}))

LoadRoot == last = Idle /\ Load(Root, NoTs, Env(NoFail, Trained(Root), {}))

\* The restriction process hands to process_query
Effective(allowed_nlp_classes, allowed_intents) ==
    IF allowed_intents.given /\ Len(allowed_intents.list) > 0
    THEN LET extracted == extract_allowed_intents(children, allowed_intents.list)
         IN  IF extracted.err = NoErr THEN Some(extracted.dict) ELSE None
    ELSE allowed_nlp_classes

\* NaturalLanguageProcessor.process
NLPProcess ==
    /\ last = Idle
    /\ \E arg \in {<<a, NoList>> : a \in AllowedClasses}
                   \cup {<<None, SomeList(l)>> : l \in Lists(WellFormed \cup Malformed)}
                   \cup {<<Some(NoDict), SomeList(<<>>)>>},
          verbose \in BOOLEAN :
           \E inp \in RootInputs(Effective(arg[1], arg[2]), verbose) :
               Returned("process", Root, Request(arg[1], arg[2], verbose, inp),
                        process(children, ready, arg[1], arg[2], verbose, inp))

\* DomainProcessor.process_query with a restriction
ProcessDomain ==
    /\ last = Idle
    /\ \E n \in {p \in Nodes : Len(p) = 1}, allowed_nlp_classes \in AllowedIntentClasses,
          verbose \in BOOLEAN :
           \E inp \in DomainInputs(n, allowed_nlp_classes, verbose) :
               ProcessQueryDomain(n, allowed_nlp_classes, verbose, inp)

\* NaturalLanguageProcessor.extract_allowed_intents
ExtractAllowedIntents ==
    /\ last = Idle
    /\ \E allowed_intents \in Lists(WellFormed \cup Malformed) :
           LET extracted == extract_allowed_intents(children, allowed_intents)
           IN  /\ last' = Called("extract_allowed_intents", Root, FALSE, NoTs, extracted.err, Root)
               /\ calls' = <<>>
               /\ req' = Request(None, SomeList(allowed_intents), FALSE, NoInput)
               /\ res' = [NoRes EXCEPT !.dict = IF extracted.err = NoErr THEN extracted.dict
                                                ELSE NoDict]
               /\ UNCHANGED <<hierarchy, clock, pool, alignment>>

NextProcess ==
    BuildRoot \/ DumpRoot \/ LoadRoot \/ NLPProcess \/ ProcessDomain
        \/ ExtractAllowedIntents \/ Return

SpecProcess == InitProcess /\ [][NextProcess]_vars

----------------------------------------------------------------------------
(* The whole of process with a worker pool: MM_SUBPROCESS_COUNT is left at  *)
(* its default, a query is one text or a list of transcripts, and every     *)
(* batch handed to _process_list completes in the pool or does not.         *)

\* A list of transcripts has at most MaxTranscripts texts.
MaxTranscripts == 2
\* query_text: 0 is a single text (or an empty list), k > 0 a list of k transcripts
Texts == 0..MaxTranscripts
\* The restrictions of a call: a dict or None, with a list of at most one entry or None.
PipelineClasses == {None, Some(NoDict)} \cup {Some([d \in {x} |-> {}]) : x \in DomainLabels}
PipelineLists ==
    {NoList} \cup {SomeList(l) : l \in {x \in Lists(WellFormed \cup Malformed) : Len(x) <= 1}}

InitPipeline == InitOf(LifecycleTaxonomies) /\ Imported(Workers, 0)

\* NaturalLanguageProcessor.process
Process ==
    /\ last = Idle
    /\ \E allowed_nlp_classes \in PipelineClasses, allowed_intents \in PipelineLists,
          texts \in Texts :
           \E inp \in RootInputs(Effective(allowed_nlp_classes, allowed_intents), FALSE) :
               LET query == [inp EXCEPT !.texts = texts]
               IN  Returned("process", Root,
                            Request(allowed_nlp_classes, allowed_intents, FALSE, query),
                            process(children, ready, allowed_nlp_classes, allowed_intents,
                                    FALSE, query))

NextPipeline ==
    BuildRoot \/ DumpRoot \/ LoadRoot \/ Process \/ ExtractAllowedIntents \/ Return

SpecPipeline == InitPipeline /\ [][NextPipeline]_vars

----------------------------------------------------------------------------
(* Processor._process_list step by step, for the threads of batch: the      *)
(* tasks are submitted one by one to the pool the global executor names at  *)
(* that moment, the workers finish them in any order or not at all, and the *)
(* caller waits, collects, or restarts the pool and runs the items itself.  *)

\* The items a batch is made of; func raises on those of Raising.
Items == {"a", "b", "x"}
Raising == {"x"}
\* A batch has at most MaxBatch items.
MaxBatch == 3
Batches == UNION {[1..k -> Items] : k \in 0..MaxBatch}
MethodError == "MethodError"

\* getattr(self, func)(item, *args, **kwargs): what func returns for an item
func(item) == [of |-> item]
raises(item) == item \in Raising
\* results = list(items): the slots of results, each still holding its item and not yet a result
slots(items) == [i \in DOMAIN items |-> [item |-> items[i]]]

Pending == "pending"
Done == "done"
Errored == "failed"
\* executor.submit(...): a new future of pool p
Future(p) == [pool |-> p, state |-> Pending, result |-> <<>>]

\* The result goes to the mirror position of the list.
Place_Mirrored(results, item_idx, item) ==
    [results EXCEPT ![Len(results) + 1 - item_idx] = item]
\* results[item_idx] = item
Place(results, item_idx, item) == [results EXCEPT ![item_idx] = item]

Threads == DOMAIN batch
Quiet == UNCHANGED <<hierarchy, clock, last, calls, req, res, num_workers, alignment>>

InitDispatch == InitOf(LifecycleTaxonomies) /\ \E n \in {0, Workers} : Imported(n, 1)

\* _process_list(items, func) is called: "if executor:", and results = list(items)
Call(c) ==
    /\ batch[c].pc = "idle"
    /\ executor = NoExecutor \/ Len(pools) < MaxPools
    /\ \E items \in Batches :
           batch' = [batch EXCEPT ![c] =
                        [NoBatch EXCEPT !.items = items, !.first = executor,
                                        !.results = IF executor # NoExecutor THEN slots(items) ELSE <<>>,
                                        !.pc = IF executor # NoExecutor THEN "submit"
                                               ELSE "serial"]]
    /\ UNCHANGED <<executor, pools>> /\ Quiet

\* The next item is submitted to the global executor; a pool that is broken or shut
\* down refuses it, and submit raises.
Submit(c) ==
    /\ batch[c].pc = "submit"
    /\ Len(batch[c].futures) < Len(batch[c].items)
    /\ batch' = [batch EXCEPT ![c] =
                    IF pools[executor].state = Running
                    THEN [@ EXCEPT !.futures = Append(@, Future(executor))]
                    ELSE [@ EXCEPT !.pc = "shutdown", !.cause = "submit"]]
    /\ UNCHANGED <<executor, pools>> /\ Quiet

\* A worker ran subproc_call_instance_function for the task of item i to its end.
TaskDone(c, i) ==
    /\ batch[c].pc = "submit"
    /\ batch[c].futures[i].state = Pending
    /\ ~raises(batch[c].items[i])
    /\ batch' = [batch EXCEPT ![c].futures[i] =
                                 [@ EXCEPT !.state = Done, !.result = func(batch[c].items[i])],
                             ![c].order = Append(@, i)]
    /\ UNCHANGED <<executor, pools>> /\ Quiet

\* subproc_call_instance_function caught an exception, of func or of the lookup of an
\* instance the worker does not know, and called sys.exit(1): the future ends with
\* SystemExit, or the worker is gone and the pool is broken.
Exits(c, i) ==
    [batch EXCEPT ![c].futures[i] = [@ EXCEPT !.state = Errored]]
\* The workers of pool p are gone: every pending future of p ends with
\* BrokenProcessPool.
Breaks(b, p) ==
    [c \in DOMAIN b |->
        [b[c] EXCEPT !.futures =
            [k \in DOMAIN @ |-> IF @[k].pool = p /\ @[k].state = Pending
                                 THEN [@[k] EXCEPT !.state = Errored] ELSE @[k]]]]
TaskFails(c, i) ==
    /\ batch[c].pc = "submit"
    /\ batch[c].futures[i].state = Pending
    /\ \E cause \in {"unknown_instance"}
                       \cup (IF raises(batch[c].items[i]) THEN {"raised"} ELSE {}) :
       \E dies \in BOOLEAN :
           /\ batch' = [(IF dies THEN Breaks(Exits(c, i), batch[c].futures[i].pool)
                                 ELSE Exits(c, i))
                           EXCEPT ![c].cause = cause]
           /\ pools' = IF dies /\ pools[batch[c].futures[i].pool].state = Running
                       THEN [pools EXCEPT ![batch[c].futures[i].pool].state = Broken]
                       ELSE pools
    /\ UNCHANGED executor /\ Quiet

\* A worker of the global pool is killed from outside.
WorkerDies ==
    /\ executor # NoExecutor /\ pools[executor].state = Running
    /\ \A c \in Threads : batch[c].pc \in {"idle", "submit"}
    /\ pools' = [pools EXCEPT ![executor].state = Broken]
    /\ batch' = [c \in Threads |->
                    [Breaks(batch, executor)[c] EXCEPT !.cause =
                        IF \E k \in DOMAIN batch[c].futures :
                               batch[c].futures[k].state = Pending
                        THEN "died" ELSE @]]
    /\ UNCHANGED executor /\ Quiet

\* The exception of the timeout reaches the caller.
Wait_Escapes(c) ==
    /\ batch[c].pc = "submit"
    /\ Len(batch[c].futures) = Len(batch[c].items)
    /\ batch' = [batch EXCEPT ![c] =
                    IF \E i \in DOMAIN @.futures : @.futures[i].state = Pending
                    THEN [@ EXCEPT !.pc = "raised", !.cause = "timeout", !.err = "Exception"]
                    ELSE [@ EXCEPT !.pc = "collect"]]
    /\ UNCHANGED <<executor, pools>> /\ Quiet

\* wait(future_to_idx_map) without a timeout: it returns when every future is done.
Wait_Forever(c) ==
    /\ batch[c].pc = "submit"
    /\ Len(batch[c].futures) = Len(batch[c].items)
    /\ \A i \in DOMAIN batch[c].futures : batch[c].futures[i].state # Pending
    /\ batch' = [batch EXCEPT ![c].pc = "collect"]
    /\ UNCHANGED <<executor, pools>> /\ Quiet

\* wait(future_to_idx_map, timeout=SUBPROCESS_WAIT_TIME) returns: every future is done,
\* or the time is up with some of them pending and "if tasks.not_done" raises.
Wait(c) ==
    /\ batch[c].pc = "submit"
    /\ Len(batch[c].futures) = Len(batch[c].items)
    /\ batch' = [batch EXCEPT ![c] =
                    IF \E i \in DOMAIN @.futures : @.futures[i].state = Pending
                    THEN [@ EXCEPT !.pc = "shutdown", !.cause = "timeout"]
                    ELSE [@ EXCEPT !.pc = "collect"]]
    /\ UNCHANGED <<executor, pools>> /\ Quiet

\* "for future in tasks.done": the next future of the set, in any order;
\* future.result() raises what the task ended with.
Collect(c) ==
    /\ batch[c].pc = "collect"
    /\ \E i \in DOMAIN batch[c].futures \ batch[c].collected :
           batch' = [batch EXCEPT ![c] =
                        IF @.futures[i].state = Errored
                        THEN [@ EXCEPT !.pc = "shutdown",
                                       !.cause = IF @ = "" THEN "error" ELSE @]
                        ELSE [@ EXCEPT !.results = Place(@, i, batch[c].futures[i].result),
                                       !.collected = @ \cup {i}]]
    /\ UNCHANGED <<executor, pools>> /\ Quiet

\* return tuple(results)
ReturnResults(c) ==
    /\ batch[c].pc = "collect"
    /\ batch[c].collected = DOMAIN batch[c].futures
    /\ batch' = [batch EXCEPT ![c] = [@ EXCEPT !.pc = "returned", !.out = batch[c].results]]
    /\ UNCHANGED <<executor, pools>> /\ Quiet

\* restart_subprocesses, first statement: executor.shutdown(wait=False)
ShutdownPool(c) ==
    /\ batch[c].pc = "shutdown"
    /\ pools' = [pools EXCEPT ![executor].state = Shutdown]
    /\ batch' = [batch EXCEPT ![c].pc = "replace"]
    /\ UNCHANGED executor /\ Quiet

\* The pool that was shut down is taken into service again.
ReplacePool_Reopens(c) ==
    /\ batch[c].pc = "replace"
    /\ pools' = [pools EXCEPT ![executor].state = Running]
    /\ batch' = [batch EXCEPT ![c].pc = "serial"]
    /\ UNCHANGED executor /\ Quiet

\* A new pool is made only if the executor is still the pool of the batch.
ReplacePool_UnlessReplaced(c) ==
    /\ batch[c].pc = "replace"
    /\ pools' = IF executor = batch[c].first
                THEN Append(pools, ProcessPoolExecutor(num_workers)) ELSE pools
    /\ executor' = IF executor = batch[c].first THEN Len(pools) + 1 ELSE executor
    /\ batch' = [batch EXCEPT ![c].pc = "serial"]
    /\ Quiet

\* restart_subprocesses, second statement:
\* executor = ProcessPoolExecutor(max_workers=num_workers)
ReplacePool(c) ==
    /\ batch[c].pc = "replace"
    /\ pools' = Append(pools, ProcessPoolExecutor(num_workers))
    /\ executor' = Len(pools) + 1
    /\ batch' = [batch EXCEPT ![c].pc = "serial"]
    /\ Quiet

\* Only the items whose task did not end in the pool are run, the others keep the
\* result of their future.
in_series_OnlyPending(b) ==
    LET k == Len(b.out) + 1
    IN  IF k > Len(b.items) THEN [b EXCEPT !.pc = "returned"]
        ELSE IF k \in DOMAIN b.futures /\ b.futures[k].state = Done
        THEN [b EXCEPT !.out = Append(@, b.futures[k].result)]
        ELSE IF raises(b.items[k])
        THEN [b EXCEPT !.ran = Append(@, b.items[k]), !.pc = "raised", !.err = MethodError]
        ELSE [b EXCEPT !.ran = Append(@, b.items[k]), !.out = Append(@, func(b.items[k]))]
\* The first item is not run.
in_series_SkipsFirst(b) ==
    LET k == Len(b.ran) + 1
    IN  IF k >= Len(b.items) THEN [b EXCEPT !.pc = "returned"]
        ELSE [b EXCEPT !.ran = Append(@, b.items[k + 1]),
                       !.out = Append(@, func(b.items[k + 1]))]
\* tuple([getattr(self, func)(itm, *args, **kwargs) for itm in items]): one more item
\* of the comprehension, run in the caller; what func raises ends the call.
in_series(b) ==
    LET k == Len(b.ran) + 1
    IN  IF k > Len(b.items) THEN [b EXCEPT !.pc = "returned"]
        ELSE IF raises(b.items[k])
        THEN [b EXCEPT !.ran = Append(@, b.items[k]), !.pc = "raised", !.err = MethodError]
        ELSE [b EXCEPT !.ran = Append(@, b.items[k]), !.out = Append(@, func(b.items[k]))]

\* "process the list in series"
Serial(c) ==
    /\ batch[c].pc = "serial"
    /\ batch' = [batch EXCEPT ![c] = in_series(@)]
    /\ UNCHANGED <<executor, pools>> /\ Quiet

\* restart_subprocesses called by the application while no batch is in progress; with no
\* executor, executor.shutdown raises and nothing is created.
Restart ==
    /\ \A c \in Threads : batch[c].pc = "idle"
    /\ executor # NoExecutor /\ Len(pools) < MaxPools
    /\ pools' = Append([pools EXCEPT ![executor].state = Shutdown],
                       ProcessPoolExecutor(num_workers))
    /\ executor' = Len(pools) + 1
    /\ UNCHANGED batch /\ Quiet

\* The caller takes the tuple, or the exception, of its call.
Taken(c) ==
    /\ batch[c].pc \in {"returned", "raised"}
    /\ batch' = [batch EXCEPT ![c] = NoBatch]
    /\ UNCHANGED <<executor, pools>> /\ Quiet

Calls == \E c \in Threads : Call(c)
Submits == \E c \in Threads : Submit(c)
TasksDone == \E c \in Threads : \E i \in DOMAIN batch[c].futures : TaskDone(c, i)
TasksFail == \E c \in Threads : \E i \in DOMAIN batch[c].futures : TaskFails(c, i)
Waits == \E c \in Threads : Wait(c)
Collects == \E c \in Threads : Collect(c)
Returns == \E c \in Threads : ReturnResults(c)
Shutdowns == \E c \in Threads : ShutdownPool(c)
Replaces == \E c \in Threads : ReplacePool(c)
Serials == \E c \in Threads : Serial(c)
Takes == \E c \in Threads : Taken(c)

NextDispatch ==
    Calls \/ Submits \/ TasksDone \/ TasksFail \/ WorkerDies \/ Waits \/ Collects
        \/ Returns \/ Shutdowns \/ Replaces \/ Serials \/ Takes \/ Restart

SpecDispatch == InitDispatch /\ [][NextDispatch]_vars

\* Two threads of the application, each with a processor of its own, call _process_list
\* on the one pool of the module: their statements interleave in every way, and so do
\* the ends of their tasks.  A batch has at most MaxShared items, and func raises on
\* none of them: run in series, every batch gives a tuple.  The calls start on the pool
\* the module was imported with.
MaxShared == 2
SharedBatches == UNION {[1..k -> Items \ Raising] : k \in 1..MaxShared}

InitShared ==
    InitOf({tax \in LifecycleTaxonomies : DOMAIN tax = {"smart_home"}})
        /\ Imported(Workers, 2)

CallShared(c) ==
    /\ batch[c].pc = "idle"
    /\ Len(pools) = 1
    /\ \E items \in SharedBatches :
           batch' = [batch EXCEPT ![c] =
                        [NoBatch EXCEPT !.items = items, !.first = executor,
                                        !.results = slots(items), !.pc = "submit"]]
    /\ UNCHANGED <<executor, pools>> /\ Quiet

CallsShared == \E c \in Threads : CallShared(c)

NextShared ==
    CallsShared \/ Submits \/ TasksDone \/ TasksFail \/ Waits \/ Collects
        \/ Returns \/ Shutdowns \/ Replaces \/ Serials \/ Takes

SpecShared == InitShared /\ [][NextShared]_vars

\* The caller of _process_list runs: each of its statements is taken when it can be,
\* and wait returns when its time is up.  Nothing is assumed of the workers: a task
\* may stay pending for ever.  At_pc is where the caller is: every statement moves it.
At_pc(c) ==
    <<batch[c].pc, Len(batch[c].futures), batch[c].collected, Len(batch[c].ran)>>
Runs(c) ==
    /\ WF_At_pc(c)(Submit(c)) /\ WF_At_pc(c)(Wait(c)) /\ WF_At_pc(c)(Collect(c))
    /\ WF_At_pc(c)(ReturnResults(c)) /\ WF_At_pc(c)(ShutdownPool(c))
    /\ WF_At_pc(c)(ReplacePool(c)) /\ WF_At_pc(c)(Serial(c))

SpecDispatchRuns == SpecDispatch /\ Runs(1)

----------------------------------------------------------------------------
(* IntentProcessor._align_entities on the entities recognized in the n-best *)
(* transcripts.  entities[1] are those of the first transcript, the         *)
(* reference; an entity is named by its place <<t, k>>: the k-th entity of  *)
(* transcript t.  Groups hold places, as the lists of the code hold the     *)
(* entity objects themselves.                                               *)

\* A recognized entity: entity.type, span.start and span.end (the last character)
QueryEntity(type, start, end) == [type |-> type, start |-> start, end |-> end]
\* The entities a recognizer can find in a transcript of two characters: a location on
\* the first character, on both or on the second, and a time on both.
QueryEntities ==
    {QueryEntity("location", 0, 0), QueryEntity("location", 0, 1),
     QueryEntity("location", 1, 1), QueryEntity("sys_time", 0, 1)}
\* The span is not widened.
Widened_Never(entity) == entity.end
\* A transcript has at most MaxSpans entities.
MaxSpans == 2
SpanLists == UNION {[1..k -> QueryEntities] : k \in 0..MaxSpans}
\* An n-best list has one, two or three transcripts.
NBest == {1, 2, 3}

Min(a, b) == IF a < b THEN a ELSE b
Max(a, b) == IF a > b THEN a ELSE b
\* "if n_start == n_end: n_end += 1"
Widened(entity) == IF entity.start = entity.end THEN entity.end + 1 ELSE entity.end
\* "if there is an overlap in spans and is of the same type"
Overlaps(entity, ref_entity) ==
    /\ Min(Widened(entity), Widened(ref_entity)) - Max(ref_entity.start, entity.start) > 0
    /\ ref_entity.type = entity.type

RECURSIVE search(_, _, _)
\* The first j, counted from 0 in reference[from + 1 ..], whose entity overlaps entity;
\* -1 if the loop ends without a break.
search(reference, entity, from) ==
    IF from >= Len(reference) THEN -1
    ELSE IF Overlaps(entity, reference[from + 1]) THEN 0
    ELSE LET j == search(reference, entity, from + 1)
         IN  IF j < 0 THEN -1 ELSE j + 1

\* The search starts at the first reference entity.
enumerate_FromStart(reference, entity, index_to_align) == search(reference, entity, 0)
\* "for j, ref_entity in enumerate(entities[0][index_to_align:])" up to the break, and
\* "index_to_align = index_to_align + j": the new index_to_align, -1 without a break
enumerate(reference, entity, index_to_align) ==
    LET j == search(reference, entity, index_to_align)
    IN  IF j < 0 THEN -1 ELSE index_to_align + j

\* The entity joins the group before its reference entity.
append_First(group, place) == <<place>> \o group
\* aligned_entities[index_to_align].append(entity)
append(group, place) == Append(group, place)

RECURSIVE align_from(_, _, _, _, _)
\* The loop "for entity in entities_n", from the k-th entity of transcript t on, with
\* al: the groups, and for each transcript the group each of its entities joined (0 if
\* none) and the values index_to_align took, one before each entity and the last.
align_from(entities, t, k, index_to_align, al) ==
    IF k > Len(entities[t]) THEN al
    ELSE LET to == enumerate(entities[1], entities[t][k], index_to_align)
         IN  IF to < 0
             THEN align_from(entities, t, k + 1, index_to_align,
                             [al EXCEPT !.matched[t] = Append(@, 0),
                                        !.pointer[t] = Append(@, index_to_align)])
             ELSE align_from(entities, t, k + 1, to,
                             [al EXCEPT !.aligned_entities[to + 1] = append(@, <<t, k>>),
                                        !.matched[t] = Append(@, to + 1),
                                        !.pointer[t] = Append(@, to)])

RECURSIVE align_transcripts(_, _, _)
\* The loop "for entities_n in entities[1:]", from transcript t on: index_to_align = 0
align_transcripts(entities, t, al) ==
    IF t > Len(entities) THEN al
    ELSE align_transcripts(entities, t + 1,
                           align_from(entities, t, 1, 0, [al EXCEPT !.pointer[t] = <<0>>]))

\* IntentProcessor._align_entities
_align_entities(entities, nbest_transcripts_enabled) ==
    LET al == [nbest_transcripts_enabled |-> nbest_transcripts_enabled,
               entities |-> entities,
               aligned_entities |-> [g \in DOMAIN entities[1] |-> <<<<1, g>>>>],
               matched |-> [t \in DOMAIN entities |-> <<>>],
               pointer |-> [t \in DOMAIN entities |-> <<>>]]
    IN  IF Len(entities) > 1 /\ nbest_transcripts_enabled
        THEN align_transcripts(entities, 2, al)
        ELSE al

InitAlign ==
    InitOf({tax \in LifecycleTaxonomies : DOMAIN tax = {"smart_home"}}) /\ Imported(0, 0)

\* IntentProcessor.process_query aligns the entities recognized in the transcripts.
Align ==
    /\ alignment = NoAlignment
    /\ \E nbest_transcripts_enabled \in BOOLEAN, n \in NBest :
           \E entities \in [1..n -> SpanLists] :
               alignment' = _align_entities(entities, nbest_transcripts_enabled)
    /\ UNCHANGED <<hierarchy, clock, last, calls, req, res, pool>>

\* The groups are handed to _process_entities.
Aligned ==
    /\ alignment # NoAlignment
    /\ alignment' = NoAlignment
    /\ UNCHANGED <<hierarchy, clock, last, calls, req, res, pool>>

NextAlign == Align \/ Aligned

SpecAlign == InitAlign /\ [][NextAlign]_vars

----------------------------------------------------------------------------
(* IntentProcessor.process_query with its entities: recognition in the      *)
(* transcripts, alignment, role classification and resolution of each       *)
(* entity of the first transcript through _process_list, and the parser.    *)
(* The intent and its entity processors are ready.  calls holds the calls   *)
(* made on the models, each with the index it was made for and its input.   *)

\* The entities the recognizer finds in a transcript.
RecognizedLists ==
    {<<>>,
     <<QueryEntity("location", 0, 1)>>,
     <<QueryEntity("location", 0, 1), QueryEntity("sys_time", 0, 1)>>,
     <<QueryEntity("sys_time", 0, 1), QueryEntity("location", 0, 0)>>}
\* The entity types of the recognizer: the keys of self.entities
RecognizerTypes == {"location", "sys_time"}
\* The ranking of the role classifier of a type that has roles.
RoleRanking == <<"origin", "destination">>
\* entity.entity.role of a recognized entity: None
NoRole == ""
\* entity.parent of an entity the parser has not placed: None
NoParent == ""
\* confidence_score = None
NoConfidence == <<>>
AttributeError == "AttributeError"

Did(call, idx, arg) == <<[call |-> call, idx |-> idx, arg |-> arg]>>
\* EntityRecognizer.predict_proba: each entity with its confidence
Scored(entity) == [entity |-> entity, score |-> Certain]
IsScored(x) == "score" \in DOMAIN x
\* EntityRecognizer.predict and predict_proba on transcript t
recognize(recognized, t, verbose) ==
    IF verbose THEN [k \in DOMAIN recognized[t] |-> Scored(recognized[t][k])]
    ELSE recognized[t]

\* IntentProcessor._recognize_entities on the tuple of queries process_query makes:
\* every transcript through _process_list if n-best is enabled, else the first alone.
_recognize_entities(self, query, verbose) ==
    LET name == IF verbose THEN "recognizer_predict_proba" ELSE "recognizer_predict"
    IN  IF self.nbest_transcripts_enabled
        THEN [entities |-> [t \in 1..query.n |-> recognize(query.recognized, t, verbose)],
              batches |-> Task("_recognize_entities", <<>>, query.n, FALSE),
              calls |-> [t \in 1..query.n |-> Did(name, query.order[t], <<>>)[1]]]
        ELSE [entities |-> <<recognize(query.recognized, 1, verbose)>>,
              batches |-> <<>>,
              calls |-> Did(name, 1, <<>>)]

\* IntentProcessor._get_pred_entities
_get_pred_entities(self, query, verbose) ==
    LET found == _recognize_entities(self, query, verbose)
        pred_entities == found.entities[1]
    IN  IF verbose /\ Len(pred_entities) > 0
        THEN [entities |-> <<[k \in DOMAIN pred_entities |-> pred_entities[k].entity]>>,
              entity_confidence |->
                  [k \in DOMAIN pred_entities |->
                      <<pred_entities[k].entity.type, pred_entities[k].score>>],
              batches |-> found.batches, calls |-> found.calls]
        ELSE [entities |-> found.entities, entity_confidence |-> <<>>,
              batches |-> found.batches, calls |-> found.calls]

\* IntentProcessor._align_entities on what _get_pred_entities returned: "entity.span"
\* of an (entity, score) pair raises AttributeError.
align(self, entities) ==
    IF /\ Len(entities) > 1
       /\ self.nbest_transcripts_enabled
       /\ \E t \in 2..Len(entities) : \E k \in DOMAIN entities[t] : IsScored(entities[t][k])
    THEN [err |-> AttributeError,
          al |-> [NoAlignment EXCEPT !.nbest_transcripts_enabled = TRUE,
                                     !.entities = entities]]
    ELSE [err |-> NoErr, al |-> _align_entities(entities, self.nbest_transcripts_enabled)]

\* The role model is consulted whether or not the type has roles.
process_entity_Always(self, processed_entities, entity_index, verbose) ==
    LET entity == processed_entities[entity_index]
    IN  [entity |-> [entity EXCEPT !.role = predict(RoleRanking)],
         confidence_score |-> NoConfidence,
         calls |-> Did("role_predict", entity_index, processed_entities)]
\* EntityProcessor.process_entity
process_entity(self, processed_entities, entity_index, verbose) ==
    LET entity == processed_entities[entity_index]
    IN  IF self.roles[entity.type]
        THEN IF verbose
             THEN LET role == predict_proba(RoleRanking)
                  IN  [entity |-> [entity EXCEPT !.role = role[1][1]],
                       confidence_score |-> role,
                       calls |-> Did("role_predict_proba", entity_index, processed_entities)]
             ELSE [entity |-> [entity EXCEPT !.role = predict(RoleRanking)],
                   confidence_score |-> NoConfidence,
                   calls |-> Did("role_predict", entity_index, processed_entities)]
        ELSE [entity |-> entity, confidence_score |-> NoConfidence, calls |-> <<>>]

\* EntityResolver.predict: the value resolved from the entities given
Resolved(entity_list) == [from |-> entity_list]
\* EntityProcessor.resolve_entity: aligned_entity_spans is a group of places
resolve_entity(entity, aligned_entity_spans, entities, idx) ==
    LET entity_list ==
            IF Len(aligned_entity_spans) > 0
            THEN [i \in DOMAIN aligned_entity_spans |->
                     entities[aligned_entity_spans[i][1]][aligned_entity_spans[i][2]]]
            ELSE <<QueryEntity(entity.type, entity.start, entity.end)>>
    IN  [entity |-> [entity EXCEPT !.value = Resolved(entity_list)],
         calls |-> Did("resolver_predict", idx, entity_list)]

\* The entity is resolved before its role is classified.
_classify_and_resolve_entities_ResolveFirst(self, idx, processed_entities, al, verbose) ==
    LET resolved == resolve_entity(processed_entities[idx], al.aligned_entities[idx],
                                   al.entities, idx)
        done == process_entity(self, [processed_entities EXCEPT ![idx] = resolved.entity],
                               idx, verbose)
    IN  [entity |-> done.entity, role_confidence |-> done.confidence_score,
         calls |-> resolved.calls \o done.calls]
\* IntentProcessor._classify_and_resolve_entities
_classify_and_resolve_entities(self, idx, processed_entities, al, verbose) ==
    LET done == process_entity(self, processed_entities, idx, verbose)
        resolved == resolve_entity(done.entity, al.aligned_entities[idx], al.entities, idx)
    IN  [entity |-> resolved.entity, role_confidence |-> done.confidence_score,
         calls |-> done.calls \o resolved.calls]

\* deepcopy(e) of a recognized entity: no role, no value, no place in a parse yet
deepcopy(e) ==
    [type |-> e.type, start |-> e.start, end |-> e.end, role |-> NoRole,
     value |-> Resolved(<<>>), parent |-> NoParent]
\* Parser.parse_entities: the entities, each placed in the parse
parse_entities(processed_entities) ==
    [k \in DOMAIN processed_entities |-> [processed_entities[k] EXCEPT !.parent = "parse"]]

RECURSIVE Flat(_)
\* The logs of the tasks, one after the other.
Flat(logs) == IF Len(logs) = 0 THEN <<>> ELSE Head(logs) \o Flat(Tail(logs))

\* The entity objects.  Place <<t, k>> is the k-th entity the recognizer found in
\* transcript t, and <<0, k>> is the copy made of <<1, k>>.  objects holds for each
\* what post-processing writes: entity.role, entity.value and the place in the parse.
Unset == [role |-> NoRole, value |-> Resolved(<<>>), parent |-> NoParent]
Written(e) == [role |-> e.role, value |-> e.value, parent |-> e.parent]
\* The entity object as a list that refers to it shows it
Shown(e, written) ==
    [type |-> e.type, start |-> e.start, end |-> e.end, role |-> written.role,
     value |-> written.value, parent |-> written.parent]
\* No copy is made: the list of the processed entities holds the recognized objects.
Copy_Alias(place) == place
\* deepcopy(e): the new object
Copy(place) == <<0, place[2]>>
\* The objects when _process_entities starts
Recognized_(entities) ==
    [id \in {<<0, k>> : k \in DOMAIN entities[1]}
              \cup UNION {{<<t, k>> : k \in DOMAIN entities[t]} : t \in DOMAIN entities}
        |-> Unset]

RECURSIVE in_turn(_, _, _, _, _, _, _)
\* "[getattr(self, func)(itm, ...) for itm in items]" for _classify_and_resolve_entities
\* from item idx on: each call gets the list processed_entities itself, whose
\* objects the calls before it have written to, and writes to the object at idx.
in_turn(self, reference, refs, objects, idx, al, verbose) ==
    IF idx > Len(refs) THEN [objects |-> objects, conf |-> <<>>]
    ELSE LET processed_entities ==
                 [k \in DOMAIN refs |-> Shown(reference[k], objects[refs[k]])]
             done == _classify_and_resolve_entities(self, idx, processed_entities, al,
                                                    verbose)
             rest == in_turn(self, reference,  refs,
                             [objects EXCEPT ![refs[idx]] = Written(done.entity)],
                             idx + 1, al, verbose)
         IN  [objects |-> rest.objects, conf |-> <<done>> \o rest.conf]

\* IntentProcessor._process_entities.  In the pool (in_pool) every task gets a pickled
\* copy of the arguments and returns a new object, the tasks finishing in any order;
\* in the calling process the calls run in turn on the one list.
_process_entities(self, entities, al, verbose, order, in_pool) ==
    LET refs == [k \in DOMAIN entities[1] |-> Copy(<<1, k>>)]
        processed_entities == [k \in DOMAIN entities[1] |-> deepcopy(entities[1][k])]
        ran == IF in_pool
               THEN [objects |-> Recognized_(entities),
                     conf |-> [idx \in DOMAIN processed_entities |->
                                  _classify_and_resolve_entities(self, idx, processed_entities,
                                                                 al, verbose)]]
               ELSE in_turn(self, entities[1], refs, Recognized_(entities), 1, al, verbose)
        conf == ran.conf
        classified == [idx \in DOMAIN conf |-> conf[idx].entity]
        cs == Flat([i \in DOMAIN conf |-> conf[order[i]].calls])
    IN  [processed_entities |-> IF self.parser THEN parse_entities(classified)
                                ELSE classified,
         role_confidence |-> [idx \in DOMAIN conf |-> conf[idx].role_confidence],
         objects |-> IF self.parser /\ ~in_pool
                     THEN [id \in DOMAIN ran.objects |->
                              IF \E k \in DOMAIN refs : refs[k] = id
                              THEN [ran.objects[id] EXCEPT !.parent = "parse"]
                              ELSE ran.objects[id]]
                     ELSE ran.objects,
         batches |-> Task("_classify_and_resolve_entities", <<>>,
                          Len(processed_entities), FALSE),
         calls |-> IF self.parser THEN cs \o Did("parse_entities", 0, classified) ELSE cs]

\* The ProcessedQuery of IntentProcessor.process_query, or the exception it raised.
\* query 1 is the first transcript; the n-best fields are None unless using is set.
ProcessedQuery(entities, confidence, using, queries, nbest_entities, aligned) ==
    [err |-> NoErr, query |-> 1, entities |-> entities, confidence |-> confidence,
     using_nbest_transcripts |-> using,
     nbest_transcripts_queries |-> queries,
     nbest_transcripts_entities |-> nbest_entities,
     nbest_aligned_entities |-> aligned]
NoProcessedQuery == ProcessedQuery(<<>>, <<>>, FALSE, 0, <<>>, <<>>)
NoConfidences == [entities |-> <<>>, roles |-> <<>>]

\* IntentProcessor.process_query on query: the text of a list of n transcripts or of a
\* single query (list is FALSE, n is 1), what the recognizer finds in each, and the
\* order in which the tasks of each _process_list finish.
process_query(self, query, verbose) ==
    LET using_nbest_transcripts == query.list /\ self.nbest_transcripts_enabled
        pred == _get_pred_entities(self, query, verbose)
        aligned == align(self, pred.entities)
    IN  IF aligned.err # NoErr
        THEN [pq |-> [NoProcessedQuery EXCEPT !.err = aligned.err], objects |-> <<>>,
              al |-> aligned.al, batches |-> pred.batches, calls |-> pred.calls]
        ELSE LET done == _process_entities(self, pred.entities, aligned.al, verbose,
                                           query.finish, query.in_pool[2])
                 confidence == IF verbose
                               THEN [entities |-> pred.entity_confidence,
                                     roles |-> done.role_confidence]
                               ELSE NoConfidences
             IN  [pq |-> IF using_nbest_transcripts
                         THEN ProcessedQuery(done.processed_entities, confidence, TRUE,
                                             query.n, pred.entities,
                                             aligned.al.aligned_entities)
                         ELSE ProcessedQuery(done.processed_entities, confidence, FALSE,
                                             0, <<>>, <<>>),
                  objects |-> done.objects,
                  al |-> aligned.al,
                  batches |-> pred.batches \o done.batches,
                  calls |-> pred.calls \o done.calls]

\* An intent processor as built: n-best enabled for it or not, with a parser or not,
\* and for each entity type whether its role classifier has roles.
IntentProcessors ==
    [nbest_transcripts_enabled : BOOLEAN, parser : BOOLEAN,
     roles : [RecognizerTypes -> BOOLEAN]]
\* The orders in which k tasks finish: any order in the pool, that of the items in
\* the calling process.
Orders(k, in_pool) == IF in_pool THEN Perms(1..k) ELSE {[i \in 1..k |-> i]}
\* Whether a _process_list completes in the pool.
Completes == IF executor = NoExecutor THEN {FALSE} ELSE BOOLEAN
\* The queries: a single text, or a list of up to MaxTranscripts transcripts, with what
\* the recognizer finds in each, whether each _process_list completes in the pool and
\* the order in which its tasks finish.
Queries ==
    UNION {UNION {{[list |-> l, n |-> n, recognized |-> r, in_pool |-> <<p1, p2>>,
                    order |-> o, finish |-> f] :
                       l \in IF n = 1 THEN BOOLEAN ELSE {TRUE},
                       o \in Orders(n, p1), f \in Orders(Len(r[1]), p2)}
                   : r \in [1..n -> RecognizedLists], p1 \in Completes, p2 \in Completes}
           : n \in 1..MaxTranscripts}

InitEntities ==
    InitOf({tax \in LifecycleTaxonomies : DOMAIN tax = {"smart_home"}})
        /\ \E n \in {0, Workers} : Imported(n, 0)

\* process_query is called on an intent processor.
ProcessQueryOfIntent ==
    /\ last = Idle
    /\ \E self \in IntentProcessors, verbose \in BOOLEAN, query \in Queries :
           /\ \E done \in {process_query(self, query, verbose)} :
                  /\ last' = Called("process_query", <<>>, FALSE, NoTs, done.pq.err, <<>>)
                  /\ calls' = done.calls
                  /\ req' = [self |-> self, query |-> query, verbose |-> verbose]
                  /\ res' = done.pq @@ [objects |-> done.objects]
                  /\ alignment' = done.al
                  /\ LET outcomes == [k \in DOMAIN done.batches |->
                                          IF done.batches[k].func = "_recognize_entities"
                                          THEN query.in_pool[1] ELSE query.in_pool[2]]
                         px == _process_lists([executor |-> executor, pools |-> pools,
                                                   dispatched |-> <<>>],
                                                  num_workers, done.batches, outcomes, 1)
                     IN  /\ Len(px.pools) <= MaxPools
                         /\ executor' = px.executor
                         /\ pools' = px.pools
    /\ UNCHANGED <<hierarchy, clock, num_workers, batch>>

\* The caller takes the ProcessedQuery.
Answered ==
    /\ last # Idle
    /\ last' = Idle
    /\ calls' = <<>>
    /\ req' = NoReq
    /\ res' = NoRes
    /\ alignment' = NoAlignment
    /\ UNCHANGED <<hierarchy, clock, pool>>

NextEntities == ProcessQueryOfIntent \/ Answered

SpecEntities == InitEntities /\ [][NextEntities]_vars

----------------------------------------------------------------------------
(* Properties.                                                              *)

\* The states of a processor
Unbuilt(n) == ~ready[n]
Built(n) == ready[n] /\ dirty[n]
Saved(n) == ready[n] /\ ~dirty[n]
\* The last call was op and returned without raising.
Succeeded(op) == last.op = op /\ last.err = NoErr
ProcessOps == {"process_query", "process_entity", "resolve_entity"}
EntityNodes == {p \in Nodes : Len(p) = 3}

\* C1, as stated: process_query on a root, domain or intent processor, and
\* process_entity and resolve_entity on an entity processor, fail with the
\* "Processor not ready" error exactly when the ready flag of that processor is
\* false.
C1_NotReadyIffOwnFlag ==
    last.op \in ProcessOps => (last.err = NotReady <=> ~ready[last.node])

\* C2: after build has returned without raising, incremental or not, the processor is
\* ready and dirty and every processor below it is ready; the processors below it are
\* dirty after a non-incremental build and not dirty after an incremental one, which
\* dumps each child right after building it.
C2_BuildLeavesSubtreeReady ==
    Succeeded("build") =>
        /\ Built(last.node)
        /\ \A m \in Subtree(last.node) :
               /\ ready[m]
               /\ m # last.node => (dirty[m] <=> ~last.incremental)

\* An incremental build of a processor that has children has returned.
C2_Witness ==
    /\ Succeeded("build") /\ last.incremental
    /\ \E m \in Subtree(last.node) : Len(m) = 3
    /\ last.node # Root

\* C2, as stated: after build has returned without raising, incremental or not, every
\* processor of the subtree is ready and dirty.
C2_BuildLeavesSubtreeDirty ==
    Succeeded("build") => \A m \in Subtree(last.node) : Built(m)

\* C3: after load has returned without raising, with or without a timestamp, every
\* processor of the subtree is ready and not dirty, the entity processors that the load
\* created included.
C3_LoadLeavesSubtreeSaved ==
    Succeeded("load") => \A m \in Subtree(last.node) : Saved(m)

\* A load with a timestamp has returned and the subtree has entity processors.
C3_Witness ==
    /\ Succeeded("load") /\ last.ts # NoTs
    /\ \E m \in Subtree(last.node) : Len(m) = 3

\* C4, as stated: a dump that returns without raising takes a Built processor and all
\* its descendants to Saved, and from any state it clears dirty in the subtree and
\* leaves every ready flag and every child set as it was.
C4_DumpSavesSubtree ==
    [][(last = Idle /\ last'.op = "dump" /\ last'.err = NoErr) =>
          /\ \A m \in SubtreeOf(children', last'.node) : ~dirty'[m]
          /\ ready' = ready /\ children' = children
          /\ (ready[last'.node] /\ dirty[last'.node]) =>
                 \A m \in SubtreeOf(children', last'.node) : ready'[m] /\ ~dirty'[m]]_vars

\* The part of C4 about any state: dirty is cleared in the subtree, ready flags and
\* child sets stay.
C4_DumpFrame ==
    [][(last = Idle /\ last'.op = "dump" /\ last'.err = NoErr) =>
          /\ \A m \in SubtreeOf(children', last'.node) : ~dirty'[m]
          /\ ready' = ready /\ children' = children]_vars

\* The label selections of the last process call, and what each was given.
Selections == {res.sel[k] : k \in DOMAIN res.sel}
Restriction(s) == IF s.allowed.given THEN DOMAIN s.allowed.dict ELSE {}
Ranked(s) == Range(s.ranking)
Labels(s) == Range(children[s.node])
ClassifierCalls == {"fit", "dump", "load", "predict", "predict_proba"}

\* C5: a root or domain processor with one child selects that child's label whatever
\* the query and the restriction, with the probability list [(label, 1.0)] when verbose,
\* and its classifier is called neither by the selection nor by build, dump and load.
C5_SingleChildNeedsNoClassifier ==
    /\ \A s \in Selections :
           Len(children[s.node]) = 1 =>
               /\ s.err = NoErr
               /\ Labels(s) = {s.label}
               /\ s.verbose => s.proba = <<<<s.label, Certain>>>>
               /\ s.calls = <<>>
    /\ \A k \in DOMAIN calls :
           (Len(calls[k].node) <= 1 /\ Len(children[calls[k].node]) = 1) =>
               calls[k].call \notin ClassifierCalls

\* A verbose process call has selected the only child of a processor although the
\* restriction does not name it.
C5_Witness ==
    /\ last.op \in {"process", "process_query"}
    /\ \E s \in Selections :
           /\ Len(children[s.node]) = 1 /\ s.verbose
           /\ Restriction(s) # {} /\ s.label \notin Restriction(s)

\* C6: with two or more children and a restriction of two or more labels, the
\* selection returns the label of the restriction that comes first in the ranking, and
\* raises AllowedNlpClassesKeyError exactly when the ranking has no label of the
\* restriction.
C6_FirstRankedOfRestriction ==
    \A s \in Selections :
        (Len(children[s.node]) >= 2 /\ Cardinality(Restriction(s)) >= 2) =>
            /\ s.err \in {NoErr, AllowedClassesNotFound}
            /\ s.err = AllowedClassesNotFound <=> Ranked(s) \cap Restriction(s) = {}
            /\ s.err = NoErr =>
                   /\ s.label \in Restriction(s)
                   /\ \E j \in DOMAIN s.ranking :
                          /\ s.ranking[j] = s.label
                          /\ \A i \in 1..(j - 1) : s.ranking[i] \notin Restriction(s)

\* A selection among several children has passed over the top of the ranking for a
\* label of the restriction.
C6_Witness ==
    \E s \in Selections :
        /\ Len(children[s.node]) >= 2 /\ Cardinality(Restriction(s)) >= 2
        /\ s.err = NoErr /\ s.label # s.ranking[1]

\* C7: when no label of the restriction is in the ranking, the selection raises
\* AllowedNlpClassesKeyError if the processor has two or more children and the
\* restriction two or more labels; a processor with one child returns that child, and
\* a restriction of one label returns that label, the call then failing with KeyError
\* when no child has it.
C7_NotFoundNeedsTwoAndTwo ==
    \A s \in Selections :
        (Restriction(s) # {} /\ Restriction(s) \cap Labels(s) = {}) =>
            /\ (Len(children[s.node]) >= 2 /\ Cardinality(Restriction(s)) >= 2) =>
                   s.err = AllowedClassesNotFound /\ last.err = AllowedClassesNotFound
            /\ Len(children[s.node]) = 1 => s.err = NoErr /\ s.label \in Labels(s)
            /\ (Len(children[s.node]) >= 2 /\ Cardinality(Restriction(s)) = 1) =>
                   s.err = NoErr /\ s.label \in Restriction(s) /\ last.err = KeyError

\* A selection among several children has raised for a restriction of two labels that
\* no child has.
C7_Witness ==
    \E s \in Selections :
        /\ Len(children[s.node]) >= 2 /\ Cardinality(Restriction(s)) >= 2
        /\ Restriction(s) \cap Labels(s) = {}
        /\ s.err = AllowedClassesNotFound

\* C7, as stated: the selection raises AllowedNlpClassesKeyError whenever the
\* restriction names only labels that no child has, whatever the number of labels of
\* the restriction and of children of the processor.
C7_NotFoundWhenever ==
    \A s \in Selections :
        (Restriction(s) # {} /\ Restriction(s) \cap Labels(s) = {}) =>
            s.err = AllowedClassesNotFound

\* C8: with two or more children and a restriction of one label, the selection
\* returns that label without a call to the classifier, with the probability list
\* [(label, 1.0)] when verbose and none otherwise.
C8_SingleAllowedLabel ==
    \A s \in Selections :
        (Len(children[s.node]) >= 2 /\ Cardinality(Restriction(s)) = 1) =>
            /\ s.err = NoErr
            /\ Restriction(s) = {s.label}
            /\ s.calls = <<>>
            /\ s.proba = IF s.verbose THEN <<<<s.label, Certain>>>> ELSE NoProba

\* A verbose selection among several children has returned the one label of the
\* restriction, which the classifier ranks last.
C8_Witness ==
    \E s \in Selections :
        /\ Len(children[s.node]) >= 2 /\ Cardinality(Restriction(s)) = 1
        /\ s.verbose /\ Len(s.ranking) >= 2
        /\ s.ranking[Len(s.ranking)] = s.label

\* An entry of an allowed_intents list is valid: "domain.intent" or "domain.*" for a
\* domain and an intent of the hierarchy.
Valid(entry) ==
    /\ Len(entry) = 3 /\ entry[2] = Dot
    /\ entry[1] \in Range(children[Root])
    /\ entry[3] = Wildcard \/ entry[3] \in Range(children[<<entry[1]>>])
\* The list after wildcard expansion
Expanded(list) ==
    UNION {IF e[3] = Wildcard THEN {Entry(e[1], i) : i \in Range(children[<<e[1]>>])}
           ELSE {e} : e \in Range(list)}
\* Every classifier that was consulted ranked all the labels of its processor.
FullRankings == \A s \in Selections : Len(children[s.node]) >= 2 => Ranked(s) = Labels(s)
\* process was called on a ready root with a list of valid entries.
ProcessedWithList ==
    /\ last.op = "process" /\ ready[Root]
    /\ req.allowed_intents.given /\ ~req.allowed_nlp_classes.given
    /\ \A e \in Range(req.allowed_intents.list) : Valid(e)

\* C9: for every non-empty list of valid entries and rankings of all the labels,
\* process on a ready root returns a domain and an intent whose path is in the list
\* after wildcard expansion.
C9_ResultIsAllowed ==
    (ProcessedWithList /\ FullRankings /\ Len(req.allowed_intents.list) > 0) =>
        /\ last.err = NoErr
        /\ Entry(res.domain, res.intent) \in Expanded(req.allowed_intents.list)

\* The application smart_home: {close_door, open_door}, the list
\* ["smart_home.close_door"] and a classifier that ranks open_door first: the result
\* is smart_home, close_door.
C9_Witness ==
    /\ ProcessedWithList /\ FullRankings
    /\ children[Root] = <<"smart_home">>
    /\ children[<<"smart_home">>] = <<"close_door", "open_door">>
    /\ req.allowed_intents.list = <<Entry("smart_home", "close_door")>>
    /\ req.inp.iranking = <<"open_door", "close_door">>
    /\ res.domain = "smart_home" /\ res.intent = "close_door"

\* C9, as stated: the same for every list that passes validation, the empty one
\* included.
C9_ResultIsAllowedForEveryList ==
    (ProcessedWithList /\ FullRankings) =>
        /\ last.err = NoErr
        /\ Entry(res.domain, res.intent) \in Expanded(req.allowed_intents.list)

\* C10: for a list of valid entries, extract_allowed_intents returns the dict whose
\* keys are the domains some entry names and whose value for a domain has as keys the
\* intents named for it, or all its intents if some entry is "domain.*"; so the result
\* depends neither on the order of the entries nor on repeated ones.
C10_ExtractedMapping ==
    (last.op = "extract_allowed_intents"
        /\ \A e \in Range(req.allowed_intents.list) : Valid(e)) =>
        LET entries == Range(req.allowed_intents.list)
        IN  /\ last.err = NoErr
            /\ DOMAIN res.dict = {e[1] : e \in entries}
            /\ \A d \in DOMAIN res.dict :
                   res.dict[d] = IF Entry(d, Wildcard) \in entries
                                 THEN Range(children[<<d>>])
                                 ELSE {e[3] : e \in {x \in entries : x[1] = d}}

\* A list of an intent of a domain followed by the wildcard of the same domain, which
\* has another intent too, has been extracted.
C10_Witness ==
    /\ last.op = "extract_allowed_intents" /\ last.err = NoErr
    /\ Len(req.allowed_intents.list) = 2
    /\ \A e \in Range(req.allowed_intents.list) : Valid(e)
    /\ req.allowed_intents.list[1][3] # Wildcard
    /\ req.allowed_intents.list[2] = Entry(req.allowed_intents.list[1][1], Wildcard)
    /\ Len(children[<<req.allowed_intents.list[1][1]>>]) = 2

\* An entry of the form "domain.intent" that names no path of the hierarchy: its domain
\* is not a child of the root, or its intent is neither the wildcard nor a child of
\* that domain.
Unknown(entry) ==
    \/ entry[1] \notin Range(children[Root])
    \/ entry[3] # Wildcard /\ entry[3] \notin Range(children[<<entry[1]>>])
\* The step is a call of extract_allowed_intents.
Extracting == last = Idle /\ last'.op = "extract_allowed_intents"

\* C11: on a list of entries of the form "domain.intent", extract_allowed_intents fails
\* with UnknownLabelPath if and only if some entry names a domain that is not a child
\* of the root, or an intent other than the wildcard that is not a child of that
\* domain; and a call that fails, with this or another error, leaves the children, the
\* flags and the timestamps of every processor and the worker pool as they were.
C11_UnknownLabelPathIffUnknownEntry ==
    [][Extracting =>
          /\ (Range(req'.allowed_intents.list) \subseteq WellFormed) =>
                 ((last'.err = UnknownLabelPath)
                     <=> \E e \in Range(req'.allowed_intents.list) : Unknown(e))
          /\ last'.err # NoErr => UNCHANGED <<hierarchy, pool>>]_vars

\* With a running pool and a built root that has no domain weather, the list
\* ["smart_home.close_door", "weather.*"] has been refused.
C11_Witness ==
    /\ last.op = "extract_allowed_intents" /\ last.err = UnknownLabelPath
    /\ executor # NoExecutor /\ pools[executor].state = Running
    /\ ready[Root] /\ children[Root] = <<"smart_home">>
    /\ req.allowed_intents.list = <<Entry("smart_home", "close_door"),
                                    Entry("weather", Wildcard)>>

\* The step is a call of NaturalLanguageProcessor.process.
Processing == last = Idle /\ last'.op = "process"
\* The call was given both allowed_intents and allowed_nlp_classes.
BothGiven == req.allowed_intents.given /\ req.allowed_nlp_classes.given

\* C12: process given both a list of allowed label paths and a dict of allowed classes
\* fails with InvalidArgument having done nothing else: it validated no label path,
\* created no query, called _process_list for no batch, checked the readiness of no
\* processor, and left the hierarchy and the pool as they were; given at most one of
\* the two it does not fail with InvalidArgument.
C12_BothGivenIsInvalidArgument ==
    [][Processing =>
          /\ BothGiven' =>
                 /\ last'.err = InvalidArgument
                 /\ calls' = <<>> /\ res'.dispatched = <<>>
                 /\ UNCHANGED <<hierarchy, pool>>
          /\ ~BothGiven' => last'.err # InvalidArgument]_vars

\* On a root that is not ready, with a running pool, a list of two transcripts was
\* given with the list ["weather.*"], which names no domain of the root, and with a
\* dict: the call failed with InvalidArgument.
C12_Witness ==
    /\ last.op = "process" /\ last.err = InvalidArgument
    /\ ~ready[Root] /\ children[Root] = <<"smart_home">>
    /\ executor # NoExecutor /\ pools[executor].state = Running
    /\ req.inp.texts = 2
    /\ req.allowed_intents = SomeList(<<Entry("weather", Wildcard)>>)
    /\ req.allowed_nlp_classes = Some(NoDict)

\* The call of thread c has ended with a tuple, or with an exception.
Ended(c) == batch[c].pc \in {"returned", "raised"}
\* ... with the tuple of the results collected from the pool
InPool(c) == batch[c].pc = "returned" /\ batch[c].first # NoExecutor /\ batch[c].cause = ""
\* ... after the pool had been given up for the reason cause
GivenUp(c) == Ended(c) /\ batch[c].first # NoExecutor /\ batch[c].cause # ""

\* C13: whatever the batch and the order in which the workers end its tasks before the
\* wait is over, a call of _process_list that completes in the pool returns a tuple as
\* long as the batch whose i-th element is what func returns for the i-th item.
C13_PoolResultsInItemOrder ==
    \A c \in Threads :
        InPool(c) =>
            /\ Len(batch[c].out) = Len(batch[c].items)
            /\ \A i \in DOMAIN batch[c].items : batch[c].out[i] = func(batch[c].items[i])

\* A batch of three items, the first unlike the others, completed in the pool with
\* the third task ending first and the first ending last.
C13_Witness ==
    \E c \in Threads :
        /\ InPool(c)
        /\ batch[c].items = <<"a", "b", "b">>
        /\ batch[c].order = <<3, 2, 1>>

\* What func returns for each item of a batch, in the order of the batch.
tuple_of(items) == [i \in DOMAIN items |-> func(items[i])]
\* func raises on some item of the batch of thread c.
SomeRaises(c) == \E i \in DOMAIN batch[c].items : raises(batch[c].items[i])

\* C14: a call of _process_list made with no pool and a call whose pool is given up at
\* the timeout end alike for the same batch: with the exception of func if func
\* raises on some item, and otherwise with the tuple of what func returns for each
\* item in the order of the batch, which depends on the batch alone.
C14_NoPoolAndTimeoutAgree ==
    \A c \in Threads :
        (Ended(c) /\ (batch[c].first = NoExecutor \/ batch[c].cause = "timeout")) =>
            /\ batch[c].pc = "raised" <=> SomeRaises(c)
            /\ batch[c].pc = "returned" => batch[c].out = tuple_of(batch[c].items)

\* A batch of two items whose first task had ended and whose second was pending at
\* the timeout has returned its tuple.
C14_Witness ==
    \E c \in Threads :
        /\ batch[c].pc = "returned" /\ batch[c].cause = "timeout"
        /\ batch[c].items = <<"a", "b">>
        /\ batch[c].futures[1].state = Done /\ batch[c].futures[2].state = Pending

\* C15: once a batch has not completed in the pool (a task was pending at the
\* timeout, a task ended with an error, or the pool refused a task), the pool it was
\* dispatched to is shut down, with its pending tasks left as they are, and the global
\* executor is another pool, newly created with num_workers workers; when a batch
\* completes, the global executor is the pool it was dispatched to, not shut down, and
\* no pool has been created.
C15_RestartIffNotCompleted ==
    \A c \in Threads :
        /\ (GivenUp(c) \/ (batch[c].pc = "serial" /\ batch[c].first # NoExecutor)) =>
               /\ pools[batch[c].first].state = Shutdown
               /\ executor # batch[c].first
               /\ executor = Len(pools) /\ Len(pools) = batch[c].first + 1
               /\ pools[executor] = [max_workers |-> num_workers, state |-> Running]
        /\ InPool(c) =>
               /\ executor = batch[c].first
               /\ Len(pools) = batch[c].first
               /\ pools[executor].state # Shutdown

\* A batch of two items was given up at the timeout with its second task pending:
\* the first pool is shut down and the executor is the second pool.
C15_Witness ==
    \E c \in Threads :
        /\ batch[c].pc = "returned" /\ batch[c].cause = "timeout"
        /\ Len(batch[c].items) = 2
        /\ batch[c].futures[2].state = Pending
        /\ batch[c].first = 1 /\ executor = 2
        /\ pools[1].state = Shutdown /\ pools[2].state = Running

\* The items of the batch of thread c up to the first one func raises on, that one
\* included.
UpToFirstRaising(c) ==
    LET items == batch[c].items
        k == CHOOSE k \in DOMAIN items :
                 raises(items[k]) /\ \A j \in 1..(k - 1) : ~raises(items[j])
    IN  SubSeq(items, 1, k)

\* C16: when a batch that was given up by the pool returns, func has been run in the
\* calling process on every item, once each and in the order of the batch, and the
\* tuple is made of the results of those runs alone; when it ends with the exception
\* of func, func has been run in the calling process on the items up to the first it
\* raises on, once each and in order, and on no later item.
C16_SerialRetryUpToFirstRaise ==
    \A c \in Threads :
        GivenUp(c) =>
            /\ batch[c].pc = "returned" =>
                   /\ batch[c].ran = batch[c].items
                   /\ batch[c].out = tuple_of(batch[c].ran)
            /\ batch[c].pc = "raised" => batch[c].ran = UpToFirstRaising(c)

\* A batch of two items, whose first task had ended in the pool when the second ended
\* with an error, has returned after func was run on both in the caller.
C16_Witness ==
    \E c \in Threads :
        /\ batch[c].pc = "returned" /\ batch[c].cause = "unknown_instance"
        /\ batch[c].items = <<"a", "b">>
        /\ batch[c].futures[1].state = Done /\ batch[c].futures[2].state = Errored
        /\ batch[c].ran = <<"a", "b">>

\* C16, as stated: whenever a batch was given up by the pool, func has been run in the
\* calling process on every item of it.
C16_EveryItemRunAgain ==
    \A c \in Threads : GivenUp(c) => batch[c].ran = batch[c].items

\* The failures of the pool: a task pending at the timeout, a worker killed, a worker
\* that does not know the processor, a pool that refuses a task.
PoolFailures == {"timeout", "died", "unknown_instance", "submit"}

\* C17: a call of _process_list ends with an exception only if func raised it on an
\* item while the items were run in the calling process; and a call whose batch the
\* pool failed on, for any of the failures of the pool, returns the tuple of the
\* results of that run unless func raises on one of its items.
C17_OnlyTheMethodsFailureReachesTheCaller ==
    \A c \in Threads :
        /\ batch[c].pc = "raised" =>
               /\ batch[c].err = MethodError
               /\ Len(batch[c].ran) > 0
               /\ raises(batch[c].ran[Len(batch[c].ran)])
        /\ (Ended(c) /\ batch[c].cause \in PoolFailures /\ ~SomeRaises(c)) =>
               /\ batch[c].pc = "returned"
               /\ batch[c].out = tuple_of(batch[c].items)

\* A worker was killed while the three tasks of a batch were pending, and the call
\* has returned its tuple.
C17_Witness ==
    \E c \in Threads :
        /\ batch[c].pc = "returned" /\ batch[c].cause = "died"
        /\ batch[c].items = <<"a", "b", "a">>
        /\ \A i \in 1..3 : batch[c].futures[i].state = Errored
        /\ pools[batch[c].first].state = Shutdown

\* C18: with a worker count of 0 the global executor is None and no pool is ever
\* created; every call of _process_list submits no task and runs func on the items in
\* the calling process, in the order of the batch: on all of them when it returns.
C18_NoWorkersNoPool ==
    num_workers = 0 =>
        /\ executor = NoExecutor /\ pools = <<>>
        /\ \A c \in Threads :
               /\ batch[c].futures = <<>>
               /\ batch[c].ran = SubSeq(batch[c].items, 1, Len(batch[c].ran))
               /\ batch[c].pc \in {"idle", "serial", "returned", "raised"}
               /\ batch[c].pc = "returned" =>
                      /\ batch[c].ran = batch[c].items
                      /\ batch[c].out = tuple_of(batch[c].items)

\* With no worker, a batch of three items has returned its tuple.
C18_Witness ==
    \E c \in Threads :
        /\ num_workers = 0 /\ executor = NoExecutor
        /\ batch[c].pc = "returned"
        /\ batch[c].items = <<"b", "a", "b">>
        /\ batch[c].ran = <<"b", "a", "b">>

\* _align_entities has been called with the n-best transcripts enabled for the intent.
AlignedNBest == alignment # NoAlignment /\ alignment.nbest_transcripts_enabled
\* The transcripts after the reference, and the places of their entities: the candidates.
Others == {t \in DOMAIN alignment.entities : t > 1}
Candidates == UNION {{<<t, k>> : k \in DOMAIN alignment.entities[t]} : t \in Others}
\* The groups candidate place joined.
GroupsOf(place) ==
    {g \in DOMAIN alignment.aligned_entities :
        \E i \in DOMAIN alignment.aligned_entities[g] :
            i > 1 /\ alignment.aligned_entities[g][i] = place}

\* C19: for every transcript after the reference, the groups joined by its entities,
\* taken in the order of the transcript, have indices that never decrease: of two
\* entities of a transcript, the later is in no group before a group of the earlier.
C19_AlignmentIsMonotonic ==
    \A t \in Others : \A k1, k2 \in DOMAIN alignment.entities[t] :
        k1 < k2 =>
            \A g1 \in GroupsOf(<<t, k1>>), g2 \in GroupsOf(<<t, k2>>) : g1 <= g2

\* The reference has a location on each character; the second transcript has the same
\* two in the reverse order: its first entity joined the second group, and its second,
\* which overlaps the first reference entity only, joined none.
C19_Witness ==
    /\ AlignedNBest
    /\ alignment.entities[1] = <<QueryEntity("location", 0, 0), QueryEntity("location", 1, 1)>>
    /\ Len(alignment.entities) = 2
    /\ alignment.entities[2] = <<QueryEntity("location", 1, 1), QueryEntity("location", 0, 0)>>
    /\ GroupsOf(<<2, 1>>) = {2} /\ GroupsOf(<<2, 2>>) = {}

\* Place p comes before place q in the order of the transcripts.
Before(p, q) == p[1] < q[1] \/ (p[1] = q[1] /\ p[2] < q[2])
\* The entity at a place
At(place) == alignment.entities[place[1]][place[2]]

\* C20: _align_entities returns one group for each entity of the reference, in the
\* order of the reference; a group starts with its reference entity, which is followed
\* by entities of the later transcripts in the order of the transcripts and, within a
\* transcript, of its entities; an entity of a later transcript is in at most one
\* group, at one position, and in none if it overlaps no reference entity of its type.
C20_OneGroupPerReferenceEntity ==
    alignment # NoAlignment =>
        LET groups == alignment.aligned_entities
        IN  /\ Len(groups) = Len(alignment.entities[1])
            /\ \A g \in DOMAIN groups :
                   /\ Len(groups[g]) >= 1 /\ groups[g][1] = <<1, g>>
                   /\ \A i \in 2..Len(groups[g]) :
                          /\ groups[g][i] \in Candidates
                          /\ Overlaps(At(groups[g][i]), alignment.entities[1][g])
                   /\ \A i, j \in 2..Len(groups[g]) :
                          i < j => Before(groups[g][i], groups[g][j])
            /\ \A p \in Candidates :
                   /\ Cardinality(GroupsOf(p)) <= 1
                   /\ (\A r \in DOMAIN alignment.entities[1] :
                           ~Overlaps(At(p), alignment.entities[1][r])) => GroupsOf(p) = {}

\* The reference has one location; the second transcript has a location on its first
\* character and a time, the third the same location as the reference: the group is
\* the reference entity, the location of the second transcript and the location of
\* the third, and the time is in no group.
C20_Witness ==
    /\ AlignedNBest
    /\ alignment.entities = <<<<QueryEntity("location", 0, 1)>>,
                              <<QueryEntity("location", 0, 0), QueryEntity("sys_time", 0, 1)>>,
                              <<QueryEntity("location", 0, 1)>>>>
    /\ alignment.aligned_entities = <<<<<<1, 1>>, <<2, 1>>, <<3, 1>>>>>>

\* The two entities have the same type and, once every span of one character is widened
\* by one, min(end_a, end_b) - max(start_a, start_b) > 0.
Matches(a, b) ==
    LET end_a == IF a.start = a.end THEN a.end + 1 ELSE a.end
        end_b == IF b.start = b.end THEN b.end + 1 ELSE b.end
    IN  /\ a.type = b.type
        /\ (IF end_a < end_b THEN end_a ELSE end_b)
               - (IF a.start > b.start THEN a.start ELSE b.start) > 0
\* The reference entities candidate place can join when the pointer is at from (0-based).
Joinable(place, from) ==
    {g \in DOMAIN alignment.entities[1] :
        g >= from + 1 /\ Matches(At(place), alignment.entities[1][g])}
Lowest(S) == CHOOSE g \in S : \A h \in S : g <= h

\* C21: with n-best enabled and more than one transcript, the pointer of every
\* transcript after the reference starts at 0; a candidate joins the group of the
\* lowest reference entity at or after the pointer that has its type and overlaps it
\* (spans of one character widened by one), and the pointer moves to that entity; a
\* candidate with no such reference entity joins no group and leaves the pointer.
C21_FirstMatchAtOrAfterPointer ==
    AlignedNBest =>
        \A t \in Others :
            /\ Len(alignment.pointer[t]) = Len(alignment.entities[t]) + 1
            /\ alignment.pointer[t][1] = 0
            /\ \A k \in DOMAIN alignment.entities[t] :
                   LET from == alignment.pointer[t][k]
                       join == Joinable(<<t, k>>, from)
                   IN  IF join = {}
                       THEN /\ GroupsOf(<<t, k>>) = {}
                            /\ alignment.pointer[t][k + 1] = from
                       ELSE /\ GroupsOf(<<t, k>>) = {Lowest(join)}
                            /\ alignment.pointer[t][k + 1] = Lowest(join) - 1

\* The reference has a time and a location; the second transcript has a location on
\* its first character and the time: the location joined the second group, moving the
\* pointer to 1, and the time, whose only match is before the pointer, joined none.
\* The third transcript has the time and a location on its second character: the time
\* joined the first group from a pointer restarted at 0, and the location, which no
\* reference entity overlaps, joined none.
C21_Witness ==
    /\ AlignedNBest
    /\ alignment.entities = <<<<QueryEntity("sys_time", 0, 1), QueryEntity("location", 0, 1)>>,
                              <<QueryEntity("location", 0, 0), QueryEntity("sys_time", 0, 1)>>,
                              <<QueryEntity("sys_time", 0, 1), QueryEntity("location", 1, 1)>>>>
    /\ alignment.aligned_entities = <<<<<<1, 1>>, <<3, 1>>>>, <<<<1, 2>>, <<2, 1>>>>>>
    /\ alignment.pointer = <<<<>>, <<0, 1, 1>>, <<0, 0, 0>>>>

\* The last call was IntentProcessor.process_query and it returned a ProcessedQuery.
Processed == last.op = "process_query" /\ last.err = NoErr
\* The positions in calls of the calls named in names that were made for entity idx.
At_(names, idx) == {i \in DOMAIN calls : calls[i].call \in names /\ calls[i].idx = idx}
Roles(idx) == At_({"role_predict", "role_predict_proba"}, idx)
Resolutions(idx) == At_({"resolver_predict"}, idx)
Parses == At_({"parse_entities"}, 0)
\* The recognized entity a processed entity is the copy of
Origin(e) == QueryEntity(e.type, e.start, e.end)
\* The entities of the first transcript, the reference
Reference == req.query.recognized[1]
SameOrder(processed) ==
    /\ Len(processed) = Len(Reference)
    /\ \A k \in DOMAIN processed : Origin(processed[k]) = Reference[k]

\* C22: in a process_query that returns, every entity of the reference is resolved
\* once, after its role is classified if it is; an intent with a parser invokes it
\* once, after every role classification and resolution, on all the classified and
\* resolved entities in reference order; an intent without one never invokes it and
\* returns the entities in reference order, with one role confidence for each.
C22_RolesThenResolutionThenParser ==
    Processed =>
        /\ \A idx \in DOMAIN Reference :
               /\ Cardinality(Resolutions(idx)) = 1
               /\ Cardinality(Roles(idx)) <= 1
               /\ \A i \in Roles(idx), j \in Resolutions(idx) : i < j
        /\ IF req.self.parser
           THEN /\ Cardinality(Parses) = 1
                /\ \A p \in Parses :
                       /\ \A idx \in DOMAIN Reference :
                              \A i \in Roles(idx) \cup Resolutions(idx) : i < p
                       /\ SameOrder(calls[p].arg)
                       /\ \A k \in DOMAIN calls[p].arg :
                              calls[p].arg[k].value # Resolved(<<>>)
           ELSE /\ Parses = {}
                /\ SameOrder(res.entities)
                /\ req.verbose =>
                       /\ Len(res.confidence.roles) = Len(Reference)
                       /\ \A k \in DOMAIN Reference :
                              res.confidence.roles[k] =
                                  IF req.self.roles[Reference[k].type]
                                  THEN predict_proba(RoleRanking) ELSE NoConfidence

\* An intent with a parser and roles for locations only, a time and a location whose
\* tasks finish in the pool in the reverse order: after the recognizer, the role and the
\* resolution of the location, the resolution of the time, and the parser.
C22_Witness ==
    /\ Processed
    /\ req.self.parser /\ req.self.roles = [t \in RecognizerTypes |-> t = "location"]
    /\ Reference = <<QueryEntity("sys_time", 0, 1), QueryEntity("location", 0, 0)>>
    /\ req.query.finish = <<2, 1>>
    /\ [i \in DOMAIN calls |-> <<calls[i].call, calls[i].idx>>] =
           <<<<"recognizer_predict", 1>>, <<"role_predict", 2>>, <<"resolver_predict", 2>>,
             <<"resolver_predict", 1>>, <<"parse_entities", 0>>>>

\* C23: in a process_query that returns, an entity whose type has no roles has had no
\* call of the role classifier, has the role it was recognized with and, when
\* confidences are asked for, no confidence map; an entity whose type has roles has
\* had one call, predict_proba when confidences are asked for and predict otherwise,
\* and has the first role of the classifier's ranking.
C23_RoleModelOnlyForTypesWithRoles ==
    Processed =>
        \A idx \in DOMAIN Reference :
            IF req.self.roles[Reference[idx].type]
            THEN /\ Cardinality(Roles(idx)) = 1
                 /\ \A i \in Roles(idx) :
                        calls[i].call = IF req.verbose THEN "role_predict_proba"
                                        ELSE "role_predict"
                 /\ res.entities[idx].role = RoleRanking[1]
                 /\ req.verbose => res.confidence.roles[idx][1] = <<RoleRanking[1], Certain - 1>>
            ELSE /\ Roles(idx) = {}
                 /\ res.entities[idx].role = NoRole
                 /\ req.verbose => res.confidence.roles[idx] = NoConfidence

\* Confidences are asked for; locations have roles and times have none: the location
\* of the query got the first role with the ranking as its confidence map, the time
\* got neither, and the role classifier was called once.
C23_Witness ==
    /\ Processed /\ req.verbose
    /\ req.self.roles = [t \in RecognizerTypes |-> t = "location"]
    /\ Reference = <<QueryEntity("location", 0, 1), QueryEntity("sys_time", 0, 1)>>
    /\ res.entities[1].role = "origin" /\ res.entities[2].role = NoRole
    /\ res.confidence.roles = <<predict_proba(RoleRanking), NoConfidence>>
    /\ Roles(1) # {} /\ Roles(2) = {}

\* process_query was called on an intent, with n-best enabled for it and a list of
\* transcripts, or without.
OfIntent == last.op = "process_query"
NBestRequest == OfIntent /\ req.query.list /\ req.self.nbest_transcripts_enabled
\* The transcripts the recognizer was called on
RecognizedTranscripts ==
    {calls[i].idx : i \in {j \in DOMAIN calls :
                              calls[j].call \in {"recognizer_predict",
                                                 "recognizer_predict_proba"}}}
\* The result carries the queries, the entities and the alignment groups of all the
\* transcripts, and each entity was resolved from its whole group.
CarriesNBest ==
    LET groups == _align_entities(req.query.recognized, TRUE).aligned_entities
    IN  /\ last.err = NoErr
        /\ res.using_nbest_transcripts
        /\ res.nbest_transcripts_queries = req.query.n
        /\ res.nbest_transcripts_entities = req.query.recognized
        /\ res.nbest_aligned_entities = groups
        /\ \A idx \in DOMAIN Reference :
               \A i \in Resolutions(idx) :
                   calls[i].arg = [g \in DOMAIN groups[idx] |->
                                      req.query.recognized[groups[idx][g][1]][groups[idx][g][2]]]
\* Only the first transcript was recognized and the result has no n-best field.
CarriesNoNBest ==
    /\ last.err = NoErr
    /\ RecognizedTranscripts = {1}
    /\ ~res.using_nbest_transcripts
    /\ res.nbest_transcripts_queries = 0
    /\ res.nbest_transcripts_entities = <<>>
    /\ res.nbest_aligned_entities = <<>>

\* C24: a process_query on a list of transcripts, n-best being enabled for the intent,
\* returns the queries, the recognized entities and the alignment groups of all the
\* transcripts and resolves every entity from its whole group, with and without
\* verbose; with n-best not enabled only the first transcript is recognized and the
\* result has no n-best field.
C24_NBestResultCarriesEveryTranscript ==
    /\ NBestRequest => CarriesNBest
    /\ (OfIntent /\ ~req.self.nbest_transcripts_enabled) => CarriesNoNBest

\* The same with verbose not set, and for a single text whatever the setting.
C24_NBestResultWithoutVerbose ==
    /\ (NBestRequest /\ ~req.verbose) => CarriesNBest
    /\ (OfIntent /\ ~req.self.nbest_transcripts_enabled) => CarriesNoNBest

\* build or load has returned without raising on an intent processor.
IntentRenewed == (Succeeded("build") \/ Succeeded("load")) /\ Len(last.node) = 2

\* C25: after a build or a load of an intent processor has returned, whatever builds
\* and loads came before, the keys of its children are the entity types of its
\* recognizer: no key of an earlier model is left.
C25_ChildKeysAreTheRecognizerTypes ==
    IntentRenewed => Range(children[last.node]) = entity_types[last.node]

\* What holds: every entity type of the recognizer is a key.
C25_ChildKeysCoverTheRecognizerTypes ==
    IntentRenewed => entity_types[last.node] \subseteq Range(children[last.node])

\* The positions in calls at which the resolver of an entity processor could not be
\* reached, and those of the calls made on the model of processor p.
Unreachable == {i \in DOMAIN calls : calls[i].call = "resolver_unreachable"}
LoadsOf(p) == {i \in DOMAIN calls : calls[i].call = "load" /\ calls[i].node = p}
\* The processors that have a model of their own: all but a root or a domain with one
\* child.
HasModel(p) == Len(p) >= 2 \/ Len(children[p]) > 1
\* The processors from n down to p.
Between(n, p) == {q \in AllPaths : IsPrefix(n, q) /\ IsPrefix(q, p)}

Fails == last = Idle /\ last'.op \in {"build", "load"} /\ last'.err # NoErr
FailedCall == calls'[Len(calls')]
\* The processors above p.
Above(p) == {q \in AllPaths : IsPrefix(q, p) /\ q # p}
Kept(q) == ready'[q] = ready[q] /\ dirty'[q] = dirty[q]
\* The calls of the same build or load when nothing fails, for some entity types found
\* and some resolvers not reached.
CompleteRuns ==
    {(IF last'.op = "build"
      THEN build(Current, last'.node, last'.incremental, Env(NoFail, types, {}))
      ELSE load(Current, last'.node, last'.ts, Env(NoFail, types, conn))).calls :
         types \in TypeChoices(last'.node), conn \in SUBSET EntityTypes}
SameCall(a, b) == a.call = b.call /\ a.node = b.node
\* The calls made are those of a complete run up to the failing call, which is not the
\* last of that run unless the run ends there.
StopsAtFailure ==
    \E full \in CompleteRuns :
        /\ Len(calls') <= Len(full)
        /\ \A i \in DOMAIN calls' : SameCall(calls'[i], full[i])

\* The entity processor p was created by its intent in this call: its type is one of
\* the recognizer just trained or loaded.
Created(p) == Len(p) = 3 /\ p[3] \in entity_types'[SubSeq(p, 1, 2)]

Next_(name, p) == {i \in DOMAIN calls' : calls'[i].call = name /\ calls'[i].node = p}

\* C28: evaluate visits every processor of the subtree once; a root or a domain with
\* one child has no evaluation of its classifier, one with two children or more has
\* exactly one; and evaluate leaves every ready flag, every dirty flag and every set of
\* children as it was.
C28_EvaluateSkipsSingleChildTiers ==
    [][(last = Idle /\ last'.op = "evaluate") =>
          /\ last'.err = NoErr
          /\ \A p \in SubtreeOf(children, last'.node) :
                 /\ Cardinality(Next_("_evaluate", p)) = 1
                 /\ Len(p) <= 1 =>
                        Cardinality(Next_("evaluate", p)) =
                            IF Len(children[p]) > 1 THEN 1 ELSE 0
          /\ ready' = ready /\ dirty' = dirty /\ children' = children]_vars

\* evaluate on the root of the built application with one domain and two intents: the
\* domain classifier is not evaluated, the intent classifier of the domain is, and the
\* entity processor at the bottom was visited.
C28_Witness ==
    /\ last.op = "evaluate" /\ last.node = Root /\ last.err = NoErr
    /\ Len(children[Root]) = 1 /\ ready[Root]
    /\ [i \in DOMAIN calls |-> <<calls[i].call, calls[i].node>>] =
           <<<<"_evaluate", Root>>,
             <<"_evaluate", <<"smart_home">>>>, <<"evaluate", <<"smart_home">>>>,
             <<"_evaluate", <<"smart_home", "close_door">>>>,
             <<"_evaluate", <<"smart_home", "close_door", "location">>>>,
             <<"_evaluate", <<"smart_home", "open_door">>>>>>

\* The processors of the hierarchy after the call that are strictly below p.
Below(p) == {q \in SubtreeOf(children', p) : q # p}

\* The first of a non-empty set of positions.
First(S) == CHOOSE i \in S : \A j \in S : i <= j

\* C29: in a build that is incremental every processor whose classifier was trained has
\* its model saved after that training and before the training of any processor below
\* it; in a build that is not incremental no model is saved.
C29_ModelSavedBeforeChildrenTrain ==
    [][(last = Idle /\ last'.op = "build" /\ last'.err = NoErr) =>
          IF last'.incremental
          THEN \A p \in SubtreeOf(children', last'.node) :
                   Next_("fit", p) # {} =>
                       \E d \in Next_("dump", p) :
                           /\ \A f \in Next_("fit", p) : f < d
                           /\ \A q \in Below(p) : \A g \in Next_("fit", q) : d < g
          ELSE \A i \in DOMAIN calls' : calls'[i].call # "dump"]_vars

\* An incremental build of an application with two domains of one intent each: the
\* domain classifier is trained and saved, and only then the recognizer of the first
\* intent is trained; it is saved at once, and again by the dump of each processor
\* above it.
C29_Witness ==
    /\ last.op = "build" /\ last.node = Root /\ last.incremental /\ last.err = NoErr
    /\ Len(children[Root]) = 2
    /\ Len(calls) >= 4
    /\ <<calls[1].call, calls[1].node>> = <<"fit", Root>>
    /\ <<calls[2].call, calls[2].node>> = <<"dump", Root>>
    /\ calls[3].call = "fit" /\ Len(calls[3].node) = 2
    /\ calls[4].call = "dump" /\ calls[4].node = calls[3].node
    /\ \E i \in DOMAIN calls : i > 4 /\ calls[i].call = "dump" /\ calls[i].node = calls[3].node

\* The selection of the domain tier and that of the intent tier on the same input.
OfDomainTier == res.sel[1]
OfIntentTier == res.sel[2]

\* C30: on the same labels of the children, the same restriction, the same ranking of
\* the classifier and the same verbose flag, the domain tier and the intent tier select
\* the same label, report the same probability list, and one fails to find an allowed
\* class exactly when the other does; they ask their classifiers for the same.
C30_BothTiersSelectAlike ==
    last.op = "select" =>
        /\ OfDomainTier.label = OfIntentTier.label
        /\ OfDomainTier.proba = OfIntentTier.proba
        /\ OfDomainTier.err = OfIntentTier.err
        /\ OfDomainTier.err \in {NoErr, AllowedClassesNotFound}
        /\ [k \in DOMAIN OfDomainTier.calls |-> OfDomainTier.calls[k].call] =
               [k \in DOMAIN OfIntentTier.calls |-> OfIntentTier.calls[k].call]

\* Two children, a restriction to the second of the ranking and to an unknown label,
\* with probabilities: both tiers take the second and report the whole ranking.
C30_Witness ==
    /\ last.op = "select" /\ req.verbose
    /\ children[Root] = <<"smart_home", "weather">>
    /\ DOMAIN req.allowed_nlp_classes.dict = {"smart_home", "banking"}
    /\ req.inp.dranking = <<"weather", "smart_home">>
    /\ OfDomainTier.node = Root /\ OfIntentTier.node = <<"smart_home">>
    /\ OfIntentTier.label = "smart_home"
    /\ OfIntentTier.proba = <<<<"weather", Certain - 1>>, <<"smart_home", Certain - 2>>>>

\* ... and a restriction to labels the ranking does not hold: both tiers fail.
C30_WitnessNotFound ==
    /\ last.op = "select"
    /\ req.inp.dranking = <<"weather">>
    /\ DOMAIN req.allowed_nlp_classes.dict = {"smart_home", "banking"}
    /\ OfDomainTier.err = AllowedClassesNotFound
    /\ OfIntentTier.err = AllowedClassesNotFound

\* C31: every call of _process_list comes to its end, with the tuple of the results or
\* with the exception of the method, whatever the workers of the pool do or fail to do:
\* the wait for the futures ends at the timeout and nothing else waits.
C31_DispatchReturns ==
    (batch[1].pc # "idle") ~> (batch[1].pc \in {"returned", "raised"})

\* No task of the batch was ever completed by a worker; the call returned the results
\* of the serial run after the timeout.
C31_Witness ==
    /\ batch[1].pc = "returned" /\ batch[1].cause = "timeout"
    /\ Len(batch[1].items) = MaxBatch
    /\ \A i \in DOMAIN batch[1].futures : batch[1].futures[i].state = Pending
    /\ Len(batch[1].out) = Len(batch[1].items)

\* Both threads have their call behind them, and one of them gave the pool up at the
\* timeout.
BothEndedOneTimedOut ==
    /\ \A c \in Threads : Ended(c)
    /\ \E c \in Threads : batch[c].cause = "timeout"

\* C32: two calls of _process_list on the shared pool, interleaved in any way, one of
\* which replaces the pool after a timeout: each returns a tuple as long as its own
\* batch whose i-th element is what func returns for its i-th item, which is what the
\* serial run gives; and when both have returned the global executor is a pool that
\* takes tasks.
C32_ConcurrentCallsKeepTheirResults ==
    /\ \A c \in Threads :
           Ended(c) =>
               /\ batch[c].pc = "returned"
               /\ batch[c].out = tuple_of(batch[c].items)
    /\ BothEndedOneTimedOut =>
           /\ executor # NoExecutor
           /\ pools[executor].state = Running

\* Thread 1 gave the first pool up at the timeout; thread 2, which had submitted its
\* first task to that pool, was refused the second, and both made a pool: the second
\* pool is left running and the third is the executor.  Both returned their tuples.
C32_Witness ==
    /\ BothEndedOneTimedOut
    /\ batch[1].cause = "timeout" /\ batch[1].items = <<"a", "b">>
    /\ batch[2].cause = "submit" /\ batch[2].items = <<"b", "a">>
    /\ Len(batch[2].futures) = 1
    /\ Len(pools) = 3 /\ executor = 3
    /\ batch[1].out = <<func("a"), func("b")>> /\ batch[2].out = <<func("b"), func("a")>>

\* C33: in a build called on the root every classifier is fit with the timestamp the
\* root takes from the clock in that call if the build is incremental, and with none
\* if it is not, whatever calls came before.
C33_FitWithTheTimestampOfThisBuild ==
    [][(last = Idle /\ last'.op = "build" /\ last'.node = Root /\ last'.err = NoErr) =>
          \A i \in DOMAIN calls' :
              calls'[i].call = "fit" =>
                  calls'[i].ts = IF last'.incremental THEN clock ELSE NoTs]_vars

\* C33, the incremental half: in an incremental build called on the root every
\* classifier is fit with the timestamp the root takes from the clock in that call.
C33_IncrementalFitWithTheTimestampOfThisBuild ==
    [][(last = Idle /\ last'.op = "build" /\ last'.node = Root /\ last'.err = NoErr
            /\ last'.incremental) =>
          \A i \in DOMAIN calls' : calls'[i].call = "fit" => calls'[i].ts = clock]_vars

\* The characters of the span of an entity, the last one included.
Characters(entity) == entity.start .. entity.end
\* Two entities of one type whose spans have a character in common.
ShareACharacter(a, b) == a.type = b.type /\ Characters(a) \cap Characters(b) # {}

\* C34: a candidate and a reference entity of the same type whose spans, taken with
\* their last characters, have a character in common pass the test "there is an overlap
\* in spans and is of the same type" of _align_entities; so does a candidate of one
\* character on the first or on the last character of a longer reference span.
C34_SharedCharacterMatches ==
    AlignedNBest =>
        \A place \in Candidates : \A g \in DOMAIN alignment.entities[1] :
            ShareACharacter(At(place), alignment.entities[1][g]) =>
                Overlaps(At(place), alignment.entities[1][g])

\* C34, on the first character: a candidate that starts where a reference entity of its
\* type starts passes the test.
C34_SameStartMatches ==
    AlignedNBest =>
        \A place \in Candidates : \A g \in DOMAIN alignment.entities[1] :
            (At(place).type = alignment.entities[1][g].type
                 /\ At(place).start = alignment.entities[1][g].start) =>
                Overlaps(At(place), alignment.entities[1][g])

\* The list handed to the role classifier in call i holds every entity but the one to
\* classify as the recognizer left it: no role, no value.
AsRecognized(i) ==
    \A k \in DOMAIN calls[i].arg :
        k # calls[i].idx =>
            /\ calls[i].arg[k].role = NoRole
            /\ calls[i].arg[k].value = Resolved(<<>>)
RoleCalls == {i \in DOMAIN calls : calls[i].call \in {"role_predict", "role_predict_proba"}}
\* The batch of the entities completed in the pool.
EntitiesInPool == req.query.in_pool[2]

\* C35: the list of entities handed to the role classifier for an entity holds every
\* other entity as it was recognized, with no role and no value set by
\* _process_entities, when the batch of the entities completes in the pool and when it
\* is run in the calling process.
C35_RoleClassifierSeesRecognizedEntities ==
    Processed => \A i \in RoleCalls : AsRecognized(i)

\* C35, in the pool: when the batch of the entities completes in the pool, the list
\* handed to the role classifier holds every other entity as it was recognized.
C35_RoleClassifierSeesRecognizedEntitiesInPool ==
    (Processed /\ EntitiesInPool) => \A i \in RoleCalls : AsRecognized(i)

\* C38: when process_query returns, no object the recognizer made, in any transcript,
\* and so no member of an alignment group, has a role, a value or a place in the parse
\* written to it, whether the batch of the entities completed in the pool or was run
\* in the calling process; the entities returned have them.
C38_RecognizedEntitiesAreNotWritten ==
    Processed =>
        /\ \A id \in DOMAIN res.objects : id[1] > 0 => res.objects[id] = Unset
        /\ \A g \in DOMAIN alignment.aligned_entities :
               \A i \in DOMAIN alignment.aligned_entities[g] :
                   res.objects[alignment.aligned_entities[g][i]] = Unset
        /\ \A k \in DOMAIN res.entities : res.entities[k].value # Resolved(<<>>)

\* A location with a role and a time, processed in the calling process by an intent
\* with a parser: the copy of the location has the role, the value and the place in the
\* parse, and the recognized location, the first member of its group, has none.
C38_Witness ==
    /\ Processed /\ ~EntitiesInPool /\ req.self.parser
    /\ Reference = <<QueryEntity("location", 0, 1), QueryEntity("sys_time", 0, 1)>>
    /\ req.self.roles["location"]
    /\ res.objects[<<0, 1>>] =
           [role |-> "origin", value |-> Resolved(<<Reference[1]>>), parent |-> "parse"]
    /\ alignment.aligned_entities[1][1] = <<1, 1>>
    /\ res.objects[<<1, 1>>] = Unset
    /\ res.entities[1].role = "origin"

\* C36: whatever build, dump, load and process calls were made, failed ones included,
\* every child of a ready processor is ready, and so a process call on a ready root
\* never fails with "Processor not ready" in a processor below it.
C36_ChildrenOfReadyAreReady ==
    /\ \A p \in Nodes :
           ready[p] => \A k \in DOMAIN children[p] : ready[Append(p, children[p][k])]
    /\ (last.op \in ProcessOps /\ last.node = Root /\ ready[Root]) => last.err # NotReady

\* C36, when no call raises: every child of a ready processor is ready.
C36_ChildrenOfReadyAreReadyIfNothingFails ==
    \A p \in Nodes :
        ready[p] => \A k \in DOMAIN children[p] : ready[Append(p, children[p][k])]

\* C37: whatever build, dump and load calls were made, failed ones included, a
\* processor that is dirty is ready, and no call takes the ready flag of a processor
\* of the hierarchy from true to false.
C37_DirtyIsReadyAndReadyStays ==
    [][/\ \A p \in AllPaths : dirty'[p] => ready'[p]
       /\ \A p \in AllPaths : ready[p] => ready'[p]]_vars

\* C37, the first half: a processor that is dirty is ready.
C37_DirtyIsReady == \A p \in AllPaths : dirty[p] => ready[p]

\* C39: a process call on a root that is not ready, failing with "Processor not
\* ready", has submitted no batch to the pool and has left the pool as it was: no
\* pool shut down, none created, the global executor the same; for a single text and
\* for a list of transcripts alike.
C39_NotReadyLeavesThePool ==
    [][(Processing /\ ~ready[Root] /\ last'.err = NotReady) =>
           /\ res'.dispatched = <<>>
           /\ UNCHANGED pool]_vars

\* C39, for a single text: the call of a root that is not ready has used no pool.
C39_NotReadyLeavesThePoolForOneText ==
    [][(Processing /\ ~ready[Root] /\ last'.err = NotReady /\ req'.inp.texts = 0) =>
           /\ res'.dispatched = <<>>
           /\ UNCHANGED pool]_vars

\* The selection t of a tier is the one of a call without restriction: the top of
\* the classifier's ranking, with the whole ranking as probabilities when verbose, or
\* the only child, with confidence 1.0, of a processor that has no classifier.
Unrestricted(t) ==
    /\ t.err = NoErr
    /\ IF Len(children[t.node]) > 1
       THEN /\ t.label = t.ranking[1]
            /\ t.proba = IF t.verbose THEN predict_proba(t.ranking) ELSE NoProba
       ELSE /\ t.label = children[t.node][1]
            /\ t.proba = IF t.verbose THEN <<<<t.label, Certain>>>> ELSE NoProba

\* C40: an empty restriction is no restriction at its tier.  A tier handed the empty
\* dict selects as without restriction; process given the empty list of label paths
\* selects the domain and the intent as without restriction; and when the root was
\* handed a dict in which the selected domain is no key, or is mapped to no intent,
\* the intent is selected as without restriction.
C40_EmptyRestrictionIsNone ==
    /\ \A k \in DOMAIN res.sel :
           (res.sel[k].allowed.given /\ DOMAIN res.sel[k].allowed.dict = {}) =>
               Unrestricted(res.sel[k])
    /\ (last.op = "process" /\ req.allowed_intents.given
          /\ Len(req.allowed_intents.list) = 0 /\ ~req.allowed_nlp_classes.given) =>
           \A k \in DOMAIN res.sel : Unrestricted(res.sel[k])
    /\ (Len(res.sel) = 2 /\ res.sel[1].node = Root /\ res.sel[1].allowed.given) =>
           LET allowed == res.sel[1].allowed.dict
               domain == res.sel[1].label
           IN  (domain \notin DOMAIN allowed \/ allowed[domain] = {}) =>
                   Unrestricted(res.sel[2])

\* process on the one domain smart_home with the dict {"weather": {"open_door"}}, in
\* which smart_home is no key: the intent is the top of the ranking, close_door.
C40_Witness ==
    /\ last.op = "process" /\ last.err = NoErr
    /\ children[Root] = <<"smart_home">> /\ Len(children[<<"smart_home">>]) = 2
    /\ req.allowed_nlp_classes = Some([d \in {"weather"} |-> {"open_door"}])
    /\ Len(res.sel) = 2 /\ res.sel[2].ranking[1] = "close_door"
    /\ res.intent = "close_door"

\* process on two domains with the empty dict and with the dict {"weather": {}}: the
\* domain and the intent are the tops of the rankings.
C40_WitnessEmptyDict ==
    /\ last.op = "process" /\ last.err = NoErr
    /\ Len(children[Root]) = 2 /\ Len(children[<<"weather">>]) = 2
    /\ req.allowed_nlp_classes = Some([d \in {"weather"} |-> {}])
    /\ Len(res.sel) = 2 /\ res.sel[2].allowed = Some(NoDict)
    /\ res.intent = res.sel[2].ranking[1]

====
